---- MODULE Spec2Model ----
(***************************************************************************)
(* A model of the conversation dispatch and messaging pipeline of          *)
(* chatopshub: the ConversationsService state machine with its Valkey lock *)
(* on accept, the webhook receiver and inbound processing, the send and    *)
(* list endpoints of messages, the outbound worker and the message status  *)
(* updates.  Every await of the source is one step of a call, so that      *)
(* concurrent requests interleave as they do on the event loop and across  *)
(* backend replicas.                                                       *)
(***************************************************************************)
EXTENDS Integers, Sequences, FiniteSets, TLC

\* ------------------------------------------------------------------ bounds
\* how many requests a run starts
MaxCalls == 2
\* how many requests a run of a three-way race starts
MaxRace == 3

\* ------------------------------------------------------------------ values
Agents == {"a1", "a2"}
NoAgent == "null"
Null == "null"

\* conversationStatusEnum
ConvStatuses == {"PENDING", "ASSIGNED", "COMPLETED"}

CallIds == 1..MaxRace

\* message ids: the text of gen_random_uuid() for row n, and the ids a provider assigns
Uuid(n) == <<"uuid", n>>
ProviderIds == {<<"wamid", 1>>, <<"wamid", 2>>}
NoPmid == <<"null", 0>>

\* table channels: config.phoneNumberId and config.appSecret of each row
Channels ==
    [ch1 |-> [organizationId |-> "o1", phoneNumberId |-> "pn1", appSecret |-> "s1"],
     ch2 |-> [organizationId |-> "o2", phoneNumberId |-> "pn2", appSecret |-> Null]]

ChannelIds == DOMAIN Channels

\* the X-Hub-Signature-256 header: a prefix and a hex digest; NoSignature is no header
HexLen == 64
Hmac(secret, body) == [len |-> HexLen, of |-> <<secret, body>>]
NoSignature == [prefix |-> "", hash |-> [len |-> 0, of |-> <<>>]]

\* an event-delivery payload: its first entry, a message or a status callback, and
\* in next the entries that follow it (<<>>, or the rest of the payload in a tuple)
NoPayload ==
    [phone_number_id |-> Null, kind |-> "none", from |-> Null, name |-> Null, id |-> NoPmid,
     status |-> Null, next |-> <<>>]
MessagePayload(pn, from, id) ==
    [phone_number_id |-> pn, kind |-> "message", from |-> from, name |-> from, id |-> id,
     status |-> Null, next |-> <<>>]
StatusPayload(pn, id, status) ==
    [phone_number_id |-> pn, kind |-> "status", from |-> Null, name |-> Null, id |-> id,
     status |-> status, next |-> <<>>]

\* the message payload whose contacts entry carries the profile name (without
\* one, as in MessagePayload, the display name is message.from)
Named(payload, name) == [payload EXCEPT !.name = name]

\* the payload whose entries are those of first, then those of rest
Batch(first, rest) == [first EXCEPT !.next = <<rest>>]

\* req.rawBody: the bytes of the payload, different for different payloads
rawBody(payload) ==
    <<payload.phone_number_id, payload.kind, payload.from, payload.name, payload.id,
      payload.status, payload.next>>

\* ids a request may name: the rows that can exist, and one id beyond them
MaxConvs == MaxRace + 1
ConvIds == 1..MaxConvs

\* ------------------------------------------------------------------ state
VARIABLES
    conversations,  \* table conversations: a sequence of rows, id = index
    events,         \* table conversation_events: per conversation, in insertion order
    lock,           \* Valkey keys lock:conversation:{id}: the stored value, or Null
    messages,       \* table messages: a sequence of rows, id = Uuid(index)
    contacts,       \* table contacts: a sequence of rows, id = index
    calls,          \* the requests in flight, one slot each
    queues,         \* BullMQ queues "webhooks" and "outbound-messages": the jobs added
    sessions,       \* Valkey keys session:{userId}: the users that have one
    rooms,          \* socket.io rooms: per socket, the rooms it is a member of
    emitted,        \* the events the gateway emitted, in order: to whom, which, about what
    returned,       \* the requests that returned: what was asked and the outcome
    started         \* how many requests the run has started

vars ==
    <<conversations, events, messages, contacts, lock, queues, sessions, rooms, emitted,
      calls, returned, started>>

gateway == <<sessions, rooms, emitted>>

tables == <<conversations, events, messages, contacts>>

\* ------------------------------------------------------------------ time
\* The time advances with every message inserted.  Clock is what new Date() gives,
\* Now the time of an insert (messages.createdAt, defaultNow()), later than that
\* of every row inserted before; NoTime is a timestamp column that is null.
NoTime == 0
Clock == Len(messages)
Now == Len(messages) + 1

\* ------------------------------------------------------------------ gateway
\* client.handshake.auth of the sockets that connect: userId and organizationId
Handshakes ==
    [sk1 |-> [userId |-> "a1", organizationId |-> "o1"],
     sk2 |-> [userId |-> "a2", organizationId |-> "o1"],
     sk3 |-> [userId |-> "a3", organizationId |-> "o2"],
     sk4 |-> [userId |-> "a1", organizationId |-> "o1"],
     sk5 |-> [userId |-> "a1", organizationId |-> Null],
     sk6 |-> [userId |-> Null, organizationId |-> "o1"]]

SocketIds == DOMAIN Handshakes

\* a variant of Authenticated that asks for the userId only
AuthenticatedByUser(k) == Handshakes[k].userId # Null

\* the condition of handleConnection: userId and organizationId are both there
Authenticated(k) ==
    Handshakes[k].userId # Null /\ Handshakes[k].organizationId # Null

\* the sockets that are connected when a run starts: one per user
FirstSockets == {"sk1", "sk2", "sk3"}

\* the sockets of the agents of organization o1
AgentSockets == {k \in SocketIds : Authenticated(k) /\ Handshakes[k].userId \in Agents}

\* room names `org:${organizationId}`, `user:${userId}`, `conv:${conversationId}`,
\* and the addressee of client.emit
OrgRoom(o) == <<"org", o>>
UserRoom(u) == <<"user", u>>
ConvRoom(c) == <<"conv", c>>
Client(k) == <<"socket", k>>

\* one emit: the addressee, the ServerEvent and the fields of its data
Emission(to, event, c, u, m, status) ==
    [to |-> to, event |-> event,
     data |-> [conversationId |-> c, userId |-> u, messageId |-> m, status |-> status]]

\* emitToOrganization / emitToConversation / client.emit
emit(to, event, c, u, m, status) ==
    /\ emitted' = Append(emitted, Emission(to, event, c, u, m, status))
    /\ UNCHANGED <<sessions, rooms>>

\* the emissions so far, as a set
Emitted == {emitted[n] : n \in 1..Len(emitted)}

\* the rooms handleConnection leaves an authenticated socket in: the room of
\* its own id, its organization room and its user room
Connected(k) ==
    {Client(k), OrgRoom(Handshakes[k].organizationId), UserRoom(Handshakes[k].userId)}

\* the socket is connected: socket.io keeps it in the room of its own id
isConnected(k) == Client(k) \in rooms[k]

\* the first socket of every user is connected and nothing was emitted since
NoEmissions ==
    /\ sessions = {Handshakes[k].userId : k \in FirstSockets}
    /\ rooms = [k \in SocketIds |-> IF k \in FirstSockets THEN Connected(k) ELSE {}]
    /\ emitted = <<>>

\* ------------------------------------------------------------------ rows
NewConversation(org, ch, contact) ==
    [organizationId |-> org, channelId |-> ch, contactId |-> contact,
     status |-> "PENDING", assignedAgentId |-> NoAgent,
     lastMessageAt |-> NoTime, firstResponseAt |-> NoTime]

NewEvent(type, actor, msg) ==
    [eventType |-> type, actorId |-> actor, messageId |-> msg]

\* ConversationEventsService.create: insert one row into conversation_events
EventsCreate(ev, c, type, actor, msg) ==
    [ev EXCEPT ![c] = Append(@, NewEvent(type, actor, msg))]

\* ConversationsService.findById: the row, or Null
Exists(c) == c \in 1..Len(conversations)

IdleCall ==
    [op |-> "idle", pc |-> "idle", agent |-> NoAgent, conv |-> 0,
     result |-> "none", todo |-> <<>>, ret |-> "done",
     url |-> Null, sig |-> NoSignature, payload |-> NoPayload,
     channel |-> Null, contact |-> 0, msg |-> 0, id |-> NoPmid, to |-> Null,
     attempt |-> 0, limit |-> 0, at |-> NoTime, socket |-> Null, displayName |-> Null]

\* a request takes the first free slot; a run starts at most limit requests
FreeSlot(i, limit) ==
    /\ started < limit
    /\ calls[i].op = "idle"
    /\ \A j \in 1..(i - 1) : calls[j].op # "idle"

\* what a request leaves behind when it returns
Response(call, res) ==
    [op |-> call.op, agent |-> call.agent, conv |-> call.conv, msg |-> call.msg,
     id |-> call.payload.id, to |-> call.to, attempt |-> call.attempt, socket |-> call.socket,
     result |-> res]

Begin(i, limit, call) ==
    /\ FreeSlot(i, limit)
    /\ calls' = [calls EXCEPT ![i] = call]
    /\ started' = started + 1
    /\ UNCHANGED returned

\* request i returns res: its slot is free again
Return(i, res) ==
    /\ calls' = [calls EXCEPT ![i] = IdleCall]
    /\ returned' = returned \cup {Response(calls[i], res)}
    /\ UNCHANGED started

\* a variant of Throw without the try/catch of the webhook handlers
ThrowOn(i, err) ==
    Return(i, IF calls[i].op = "job" THEN "failed" ELSE err)

\* request i throws err: a webhook POST catches it and answers 200, a queue job
\* fails, any other call passes it on
Throw(i, err) ==
    Return(i, IF calls[i].op = "post" THEN "200"
              ELSE IF calls[i].op = "job" THEN "failed" ELSE err)

\* request i moves on to pc next
Goto(i, next) ==
    /\ calls' = [calls EXCEPT ![i].pc = next]
    /\ UNCHANGED <<returned, started>>

\* ------------------------------------------------------------------ Valkey
\* a variant of acquireLock without NX: SET key value PX ttl overwrites the key
acquireLockOverwrite(l, key, value) == [l EXCEPT ![key] = value]

\* ValkeyService.acquireLock: SET key value PX ttl NX
acquireLock(l, key, value) ==
    IF l[key] = Null THEN [l EXCEPT ![key] = value] ELSE l

acquired(l, key) == l[key] = Null

\* a variant of releaseLock that leaves the key to its ttl
releaseLockLater(l, key) == l

\* ValkeyService.releaseLock: DEL key
releaseLock(l, key) == [l EXCEPT ![key] = Null]

\* a variant of LockExpire for a key set without a ttl: it is never removed
LockNeverExpires(c) ==
    /\ FALSE
    /\ UNCHANGED vars

\* the PX ttl of the key elapses
LockExpire(c) ==
    /\ lock[c] # Null
    /\ lock' = [lock EXCEPT ![c] = Null]
    /\ UNCHANGED <<tables, queues, gateway, calls, returned, started>>

\* ------------------------------------------------------------------ accept
StartAccept(i, limit, a, c) ==
    /\ Begin(i, limit, [IdleCall EXCEPT !.op = "accept", !.pc = "acquire", !.agent = a, !.conv = c])
    /\ UNCHANGED <<tables, lock, queues, gateway>>

AcceptAcquire(i) ==
    /\ calls[i].op = "accept" /\ calls[i].pc = "acquire"
    /\ lock' = acquireLock(lock, calls[i].conv, calls[i].agent)
    /\ IF acquired(lock, calls[i].conv)
       THEN Goto(i, "read")
       ELSE Return(i, "Conflict")
    /\ UNCHANGED <<tables, queues, gateway>>

\* the outcome of the re-read of accept: what the call does next
AcceptCheck(c) ==
    IF ~Exists(c) THEN "NotFound"
    ELSE IF conversations[c].status # "PENDING" THEN "Conflict"
    ELSE "go"

AcceptRead(i) ==
    /\ calls[i].op = "accept" /\ calls[i].pc = "read"
    /\ calls' = [calls EXCEPT ![i] =
            IF AcceptCheck(calls[i].conv) = "go"
            THEN [@ EXCEPT !.pc = "update"]
            ELSE [@ EXCEPT !.pc = "unlock", !.result = AcceptCheck(calls[i].conv)]]
    /\ UNCHANGED <<tables, lock, queues, gateway, returned, started>>

\* the columns accept SETs
AssignedRow(row, a) == [row EXCEPT !.status = "ASSIGNED", !.assignedAgentId = a]

AcceptUpdate(i) ==
    /\ calls[i].op = "accept" /\ calls[i].pc = "update"
    /\ conversations' = [conversations EXCEPT ![calls[i].conv] =
            AssignedRow(@, calls[i].agent)]
    /\ Goto(i, "event")
    /\ UNCHANGED <<events, messages, contacts, lock, queues, gateway>>

AcceptEvent(i) ==
    /\ calls[i].op = "accept" /\ calls[i].pc = "event"
    /\ events' = EventsCreate(events, calls[i].conv, "ACCEPTED", calls[i].agent, 0)
    /\ calls' = [calls EXCEPT ![i] = [@ EXCEPT !.pc = "unlock", !.result = "ok"]]
    /\ UNCHANGED <<conversations, messages, contacts, lock, queues, gateway, returned, started>>

\* the finally block: the call returns what the try block decided
AcceptUnlock(i) ==
    /\ calls[i].op = "accept" /\ calls[i].pc = "unlock"
    /\ lock' = releaseLock(lock, calls[i].conv)
    /\ Return(i, calls[i].result)
    /\ UNCHANGED <<tables, queues, gateway>>

AcceptStep(i) ==
    \/ AcceptAcquire(i)
    \/ AcceptRead(i)
    \/ AcceptUpdate(i)
    \/ AcceptEvent(i)
    \/ AcceptUnlock(i)

\* ------------------------------------------------------------------ release
StartRelease(i, limit, a, c) ==
    /\ Begin(i, limit, [IdleCall EXCEPT !.op = "release", !.pc = "read", !.agent = a, !.conv = c])
    /\ UNCHANGED <<tables, lock, queues, gateway>>

\* a variant of OwnerCheck that leaves out the comparison of the caller with
\* assignedAgentId: the ownership properties must tell it apart from OwnerCheck
OwnerCheckNoOwner(c, a) ==
    IF ~Exists(c) THEN "NotFound"
    ELSE IF conversations[c].status # "ASSIGNED" THEN "Conflict"
    ELSE "go"

\* a variant of OwnerCheck without the comparison of the status
OwnerCheckNoStatus(c, a) ==
    IF ~Exists(c) THEN "NotFound"
    ELSE IF conversations[c].assignedAgentId # a THEN "Forbidden"
    ELSE "go"

\* the precondition checks of release and of complete, in the source's order
OwnerCheck(c, a) ==
    IF ~Exists(c) THEN "NotFound"
    ELSE IF conversations[c].status # "ASSIGNED" THEN "Conflict"
    ELSE IF conversations[c].assignedAgentId # a THEN "Forbidden"
    ELSE "go"

ReleaseRead(i) ==
    /\ calls[i].op = "release" /\ calls[i].pc = "read"
    /\ IF OwnerCheck(calls[i].conv, calls[i].agent) = "go"
       THEN Goto(i, "update")
       ELSE Return(i, OwnerCheck(calls[i].conv, calls[i].agent))
    /\ UNCHANGED <<tables, lock, queues, gateway>>

\* a variant of ReleasedRow that leaves assignedAgentId out of the SET list
ReleasedRowKeepsAgent(row) == [row EXCEPT !.status = "PENDING"]

\* the columns release, reopen and releaseByAgent SET
ReleasedRow(row) == [row EXCEPT !.status = "PENDING", !.assignedAgentId = NoAgent]

ReleaseUpdate(i) ==
    /\ calls[i].op = "release" /\ calls[i].pc = "update"
    /\ conversations' = [conversations EXCEPT ![calls[i].conv] = ReleasedRow(@)]
    /\ Goto(i, "event")
    /\ UNCHANGED <<events, messages, contacts, lock, queues, gateway>>

ReleaseEvent(i) ==
    /\ calls[i].op = "release" /\ calls[i].pc = "event"
    /\ events' = EventsCreate(events, calls[i].conv, "RELEASED", calls[i].agent, 0)
    /\ Return(i, "ok")
    /\ UNCHANGED <<conversations, messages, contacts, lock, queues, gateway>>

ReleaseStep(i) ==
    \/ ReleaseRead(i)
    \/ ReleaseUpdate(i)
    \/ ReleaseEvent(i)

\* ------------------------------------------------------------------ complete
StartComplete(i, limit, a, c) ==
    /\ Begin(i, limit, [IdleCall EXCEPT !.op = "complete", !.pc = "read", !.agent = a, !.conv = c])
    /\ UNCHANGED <<tables, lock, queues, gateway>>

CompleteRead(i) ==
    /\ calls[i].op = "complete" /\ calls[i].pc = "read"
    /\ IF OwnerCheck(calls[i].conv, calls[i].agent) = "go"
       THEN Goto(i, "update")
       ELSE Return(i, OwnerCheck(calls[i].conv, calls[i].agent))
    /\ UNCHANGED <<tables, lock, queues, gateway>>

\* the row complete writes: status only, assignedAgentId is not in the SET list
CompletedRow(row) == [row EXCEPT !.status = "COMPLETED"]

CompleteUpdate(i) ==
    /\ calls[i].op = "complete" /\ calls[i].pc = "update"
    /\ conversations' = [conversations EXCEPT ![calls[i].conv] = CompletedRow(@)]
    /\ Goto(i, "event")
    /\ UNCHANGED <<events, messages, contacts, lock, queues, gateway>>

CompleteEvent(i) ==
    /\ calls[i].op = "complete" /\ calls[i].pc = "event"
    /\ events' = EventsCreate(events, calls[i].conv, "COMPLETED", calls[i].agent, 0)
    /\ Return(i, "ok")
    /\ UNCHANGED <<conversations, messages, contacts, lock, queues, gateway>>

CompleteStep(i) ==
    \/ CompleteRead(i)
    \/ CompleteUpdate(i)
    \/ CompleteEvent(i)

\* ------------------------------------------------------------------ reopen
\* reopen runs on its own (op = "reopen") and inside inbound processing; ret is
\* the pc its caller continues at.
StartReopen(i, limit, c) ==
    /\ Begin(i, limit, [IdleCall EXCEPT !.op = "reopen", !.pc = "reopen_read", !.conv = c])
    /\ UNCHANGED <<tables, lock, queues, gateway>>

\* reopen is over: a call of its own returns, a caller continues
ReopenDone(i) ==
    IF calls[i].op = "reopen"
    THEN Return(i, "ok")
    ELSE /\ calls' = [calls EXCEPT ![i] = [@ EXCEPT !.pc = calls[i].ret, !.at = Clock]]
         /\ UNCHANGED <<returned, started>>

ReopenRead(i) ==
    /\ calls[i].pc = "reopen_read"
    /\ IF ~Exists(calls[i].conv) THEN Throw(i, "NotFound")
       ELSE IF conversations[calls[i].conv].status # "COMPLETED" THEN ReopenDone(i)
       ELSE Goto(i, "reopen_update")
    /\ UNCHANGED <<tables, lock, queues, gateway>>

ReopenUpdate(i) ==
    /\ calls[i].pc = "reopen_update"
    /\ conversations' = [conversations EXCEPT ![calls[i].conv] = ReleasedRow(@)]
    /\ Goto(i, "reopen_event")
    /\ UNCHANGED <<events, messages, contacts, lock, queues, gateway>>

ReopenEvent(i) ==
    /\ calls[i].pc = "reopen_event"
    /\ events' = EventsCreate(events, calls[i].conv, "REOPENED", NoAgent, 0)
    /\ ReopenDone(i)
    /\ UNCHANGED <<conversations, messages, contacts, lock, queues, gateway>>

ReopenStep(i) ==
    \/ ReopenRead(i)
    \/ ReopenUpdate(i)
    \/ ReopenEvent(i)

\* ------------------------------------------------------------------ releaseByAgent
\* the rows SELECTed by releaseByAgent, as a sequence of ids in id order
RECURSIVE AssignedFrom(_, _)
AssignedFrom(a, c) ==
    IF c > Len(conversations) THEN <<>>
    ELSE IF conversations[c].assignedAgentId = a /\ conversations[c].status = "ASSIGNED"
    THEN <<c>> \o AssignedFrom(a, c + 1)
    ELSE AssignedFrom(a, c + 1)

assignedConvs(a) == AssignedFrom(a, 1)

\* EventsGateway.handleDisconnect of the authenticated socket k, which socket.io
\* has taken out of its rooms
StartDisconnect(i, limit, k) ==
    /\ isConnected(k)
    /\ Begin(i, limit, [IdleCall EXCEPT !.op = "releaseByAgent", !.pc = "delete_session",
                                        !.agent = Handshakes[k].userId, !.socket = k])
    /\ rooms' = [rooms EXCEPT ![k] = {}]
    /\ UNCHANGED <<tables, lock, queues, sessions, emitted>>

\* valkeyService.deleteSession(userId)
RbaDeleteSession(i) ==
    /\ calls[i].op = "releaseByAgent" /\ calls[i].pc = "delete_session"
    /\ sessions' = sessions \ {calls[i].agent}
    /\ Goto(i, "select")
    /\ UNCHANGED <<tables, lock, queues, rooms, emitted>>

\* releaseByAgent returned: the organization hears that the agent is OFFLINE
RbaDone(i) ==
    /\ emit(OrgRoom(Handshakes[calls[i].socket].organizationId), "agent:status_changed",
            0, calls[i].agent, 0, "OFFLINE")
    /\ Return(i, "ok")

RbaSelect(i) ==
    /\ calls[i].op = "releaseByAgent" /\ calls[i].pc = "select"
    /\ IF assignedConvs(calls[i].agent) = <<>>
       THEN RbaDone(i)
       ELSE /\ calls' = [calls EXCEPT ![i] =
                    [@ EXCEPT !.pc = "update", !.todo = assignedConvs(calls[i].agent)]]
            /\ UNCHANGED <<gateway, returned, started>>
    /\ UNCHANGED <<tables, lock, queues>>

RbaUpdate(i) ==
    /\ calls[i].op = "releaseByAgent" /\ calls[i].pc = "update"
    /\ conversations' = [conversations EXCEPT ![Head(calls[i].todo)] = ReleasedRow(@)]
    /\ Goto(i, "event")
    /\ UNCHANGED <<events, messages, contacts, lock, queues, gateway>>

RbaEvent(i) ==
    /\ calls[i].op = "releaseByAgent" /\ calls[i].pc = "event"
    /\ events' = EventsCreate(events, Head(calls[i].todo), "AGENT_DISCONNECTED",
                              calls[i].agent, 0)
    /\ IF Len(calls[i].todo) = 1
       THEN RbaDone(i)
       ELSE /\ calls' = [calls EXCEPT ![i] = [@ EXCEPT !.pc = "update", !.todo = Tail(@)]]
            /\ UNCHANGED <<gateway, returned, started>>
    /\ UNCHANGED <<conversations, messages, contacts, lock, queues>>

\* a query of releaseByAgent is rejected by the database: the error leaves
\* handleDisconnect, which has no try / catch, at that await
RbaFail(i) ==
    /\ calls[i].op = "releaseByAgent" /\ calls[i].pc \in {"select", "update", "event"}
    /\ Return(i, "Error")
    /\ UNCHANGED <<tables, lock, queues, gateway>>

RbaStep(i) ==
    \/ RbaDeleteSession(i)
    \/ RbaSelect(i)
    \/ RbaUpdate(i)
    \/ RbaEvent(i)

\* ------------------------------------------------------------------ connections
\* EventsGateway.handleConnection of socket k with userId and organizationId in
\* its handshake: the socket joins its rooms, then the session blob is awaited
StartConnect(i, limit, k) ==
    /\ ~isConnected(k)
    /\ Authenticated(k)
    /\ Begin(i, limit, [IdleCall EXCEPT !.op = "connect", !.pc = "set_session", !.socket = k,
                                        !.agent = Handshakes[k].userId])
    /\ rooms' = [rooms EXCEPT ![k] = Connected(k)]
    /\ UNCHANGED <<tables, lock, queues, sessions, emitted>>

\* valkeyService.setSession(userId, ...) returned: ONLINE to the organization
\* room, connected to the client
ConnectSetSession(i) ==
    /\ calls[i].op = "connect" /\ calls[i].pc = "set_session"
    /\ sessions' = sessions \cup {calls[i].agent}
    /\ emitted' = emitted \o
          <<Emission(OrgRoom(Handshakes[calls[i].socket].organizationId),
                     "agent:status_changed", 0, calls[i].agent, 0, "ONLINE"),
            Emission(Client(calls[i].socket), "connected", 0, calls[i].agent, 0, Null)>>
    /\ Return(i, "ok")
    /\ UNCHANGED <<tables, lock, queues, rooms>>

\* what the two handlers leave behind for a socket without userId or
\* organizationId: handleConnection rejected it, handleDisconnect ignored it
Rejected(k) == Response([IdleCall EXCEPT !.op = "connect", !.socket = k], "rejected")
Ignored(k) == Response([IdleCall EXCEPT !.op = "releaseByAgent", !.socket = k], "ignored")

\* handleConnection of socket k whose handshake lacks userId or organizationId:
\* error to the client, client.disconnect(), return
RejectConnection(limit, k) ==
    /\ ~isConnected(k)
    /\ ~Authenticated(k)
    /\ started < limit
    /\ started' = started + 1
    /\ emit(Client(k), "error", 0, NoAgent, 0, "Authentication required")
    /\ returned' = returned \cup {Rejected(k)}
    /\ UNCHANGED <<tables, lock, queues, calls>>

\* handleDisconnect of a socket that handleConnection rejected: client.userId
\* was never set, the handler returns at its guard
DisconnectRejected(k) ==
    /\ Rejected(k) \in returned
    /\ Ignored(k) \notin returned
    /\ returned' = returned \cup {Ignored(k)}
    /\ UNCHANGED <<tables, lock, queues, gateway, calls, started>>

ConnectStep(i) ==
    \/ ConnectSetSession(i)

\* ------------------------------------------------------------------ conversation rooms
\* a variant of JoinCheck that only asks whether the conversation exists
JoinCheckAnyOrg(k, c) == Exists(c)

\* the condition of handleJoinConversation on the row findById returned
JoinCheck(k, c) ==
    /\ Exists(c)
    /\ conversations[c].organizationId = Handshakes[k].organizationId

\* EventsGateway.handleJoinConversation: join:conversation { conversationId: c }
\* from the connected socket k
StartJoin(i, limit, k, c) ==
    /\ isConnected(k)
    /\ Begin(i, limit, [IdleCall EXCEPT !.op = "join", !.pc = "find", !.socket = k,
                                        !.agent = Handshakes[k].userId, !.conv = c])
    /\ UNCHANGED <<tables, lock, queues, gateway>>

\* findById returned: the error to the client, or client.join
JoinFind(i) ==
    /\ calls[i].op = "join" /\ calls[i].pc = "find"
    /\ IF JoinCheck(calls[i].socket, calls[i].conv)
       THEN /\ rooms' = [rooms EXCEPT ![calls[i].socket] = @ \cup {ConvRoom(calls[i].conv)}]
            /\ Return(i, "ok")
            /\ UNCHANGED <<sessions, emitted>>
       ELSE /\ emit(Client(calls[i].socket), "error", 0, NoAgent, 0, "Conversation not found")
            /\ Return(i, "error")
    /\ UNCHANGED <<tables, lock, queues>>

\* EventsGateway.handleLeaveConversation: leave:conversation { conversationId: c }
LeaveConversation(k, c) ==
    /\ isConnected(k)
    /\ ConvRoom(c) \in rooms[k]
    /\ rooms' = [rooms EXCEPT ![k] = @ \ {ConvRoom(c)}]
    /\ UNCHANGED <<tables, lock, queues, sessions, emitted, calls, returned, started>>

\* ------------------------------------------------------------------ webhook receiver
\* validateWhatsAppSignature / validateMessengerSignature: "true", "false", or
\* "throw" when timingSafeEqual is handed buffers of different lengths
validateWhatsAppSignature(payload, signature, appSecret) ==
    IF signature.prefix # "sha256=" THEN "false"
    ELSE IF signature.hash.len # Hmac(appSecret, payload).len THEN "throw"
    ELSE IF signature.hash = Hmac(appSecret, payload) THEN "true"
    ELSE "false"

\* the head of handleWhatsApp / handleMessenger: what the request is answered
\* before any processing, or "go"
Gate(url, signature, payload) ==
    IF url \notin ChannelIds THEN "400"
    ELSE IF Channels[url].appSecret # Null /\ signature # NoSignature
    THEN (IF validateWhatsAppSignature(rawBody(payload), signature, Channels[url].appSecret) = "true"
          THEN "go"
          ELSE IF validateWhatsAppSignature(rawBody(payload), signature, Channels[url].appSecret) = "false"
          THEN "401"
          ELSE "500")
    ELSE "go"

\* a variant of findWhatsAppChannel that falls back to the first channel
findFirstChannel(pn) ==
    IF \E ch \in ChannelIds : Channels[ch].phoneNumberId = pn
    THEN CHOOSE ch \in ChannelIds : Channels[ch].phoneNumberId = pn
    ELSE "ch1"

\* findWhatsAppChannel: the channel whose config.phoneNumberId is pn, or Null
findWhatsAppChannel(pn) ==
    IF \E ch \in ChannelIds : Channels[ch].phoneNumberId = pn
    THEN CHOOSE ch \in ChannelIds : Channels[ch].phoneNumberId = pn
    ELSE Null

\* POST /webhooks/whatsapp/{url} with one payload entry
StartPost(i, limit, url, signature, payload) ==
    /\ Begin(i, limit, [IdleCall EXCEPT !.op = "post", !.pc = "gate", !.url = url,
                                        !.sig = signature, !.payload = payload])
    /\ UNCHANGED <<tables, lock, queues, gateway>>

PostGate(i) ==
    /\ calls[i].op = "post" /\ calls[i].pc = "gate"
    /\ IF Gate(calls[i].url, calls[i].sig, calls[i].payload) = "go"
       THEN Goto(i, "find_channel")
       ELSE Return(i, Gate(calls[i].url, calls[i].sig, calls[i].payload))
    /\ UNCHANGED <<tables, lock, queues, gateway>>

\* handleWhatsAppStatus: where a status callback goes, and the status it carries
StatusPc(status) == IF status \in {"sent", "failed"} THEN "us_read" ELSE "mark_find"

StatusTo(status) ==
    IF status = "sent" THEN "SENT"
    ELSE IF status = "delivered" THEN "DELIVERED"
    ELSE IF status = "read" THEN "READ"
    ELSE "FAILED"

\* processWhatsAppWebhook, the loops: an entry is done, the next one is taken up;
\* after the last one the handler answers 200
PostNext(i) ==
    IF calls[i].payload.next = <<>>
    THEN Return(i, "200")
    ELSE /\ calls' = [calls EXCEPT ![i] =
                [@ EXCEPT !.payload = calls[i].payload.next[1], !.pc = "find_channel",
                          !.channel = Null, !.contact = 0, !.conv = 0, !.msg = 0,
                          !.id = NoPmid, !.to = Null, !.displayName = Null]]
         /\ UNCHANGED <<returned, started>>

\* processWhatsAppWebhook: the channel is picked by the payload's phone_number_id
PostFindChannel(i) ==
    /\ calls[i].op = "post" /\ calls[i].pc = "find_channel"
    /\ IF findWhatsAppChannel(calls[i].payload.phone_number_id) = Null
       THEN PostNext(i)
       ELSE /\ calls' = [calls EXCEPT ![i] =
                    IF calls[i].payload.kind = "message"
                    THEN [@ EXCEPT !.channel = findWhatsAppChannel(calls[i].payload.phone_number_id),
                                   !.pc = "upsert_select"]
                    ELSE [@ EXCEPT !.channel = findWhatsAppChannel(calls[i].payload.phone_number_id),
                                   !.pc = StatusPc(calls[i].payload.status),
                                   !.id = calls[i].payload.id,
                                   !.to = StatusTo(calls[i].payload.status)]]
            /\ UNCHANGED <<returned, started>>
    /\ UNCHANGED <<tables, lock, queues, gateway>>

PostStep(i) ==
    \/ PostGate(i)
    \/ PostFindChannel(i)

\* ------------------------------------------------------------------ inbound message
\* ContactsService.findByProviderId: the id of the row, or 0
findByProviderId(org, providerId) ==
    IF \E k \in 1..Len(contacts) :
          contacts[k].organizationId = org /\ contacts[k].providerId = providerId
    THEN CHOOSE k \in 1..Len(contacts) :
          contacts[k].organizationId = org /\ contacts[k].providerId = providerId
    ELSE 0

\* the row an insert into contacts stores at time at (last_seen_at defaultNow())
NewContact(org, providerId, displayName, at) ==
    [organizationId |-> org, providerId |-> providerId, displayName |-> displayName,
     lastSeenAt |-> at]

\* what JavaScript takes for false in a display name: null, undefined and ""
Falsy(name) == name \in {Null, ""}

\* updates.displayName of upsert: the name to SET, or Null to leave the column alone
Adopted(displayName, existing) ==
    IF ~Falsy(displayName) /\ Falsy(existing.displayName) THEN displayName ELSE Null

\* ContactsService.upsert: select, then update or insert; the updates of an
\* existing row are put together from the row that was read
UpsertSelect(i) ==
    /\ calls[i].op = "post" /\ calls[i].pc = "upsert_select"
    /\ LET k == findByProviderId(Channels[calls[i].channel].organizationId, calls[i].payload.from)
       IN calls' = [calls EXCEPT ![i] =
            IF k # 0
            THEN [@ EXCEPT !.pc = "upsert_update", !.contact = k, !.at = Clock,
                           !.displayName = Adopted(calls[i].payload.name, contacts[k])]
            ELSE [@ EXCEPT !.pc = "upsert_insert"]]
    /\ UNCHANGED <<tables, lock, queues, gateway, returned, started>>

UpsertUpdate(i) ==
    /\ calls[i].op = "post" /\ calls[i].pc = "upsert_update"
    /\ contacts' = [contacts EXCEPT ![calls[i].contact] =
            [@ EXCEPT !.lastSeenAt = calls[i].at,
                      !.displayName = IF calls[i].displayName = Null THEN @
                                      ELSE calls[i].displayName]]
    /\ Goto(i, "foc_select")
    /\ UNCHANGED <<conversations, events, messages, lock, queues, gateway>>

\* the insert runs into contacts_org_provider_id_unique when the row is there by now
UpsertInsert(i) ==
    /\ calls[i].op = "post" /\ calls[i].pc = "upsert_insert"
    /\ IF findByProviderId(Channels[calls[i].channel].organizationId, calls[i].payload.from) # 0
       THEN /\ Throw(i, "UniqueViolation")
            /\ UNCHANGED contacts
       ELSE /\ contacts' = Append(contacts, NewContact(Channels[calls[i].channel].organizationId,
                                                       calls[i].payload.from,
                                                       calls[i].payload.name, Clock))
            /\ calls' = [calls EXCEPT ![i] =
                    [@ EXCEPT !.pc = "foc_select", !.contact = Len(contacts) + 1]]
            /\ UNCHANGED <<returned, started>>
    /\ UNCHANGED <<conversations, events, messages, lock, queues, gateway>>

\* the rows the SELECT of findOrCreate matches
ActiveConvs(org, ch, contact) ==
    {c \in 1..Len(conversations) :
        /\ conversations[c].organizationId = org
        /\ conversations[c].channelId = ch
        /\ conversations[c].contactId = contact
        /\ conversations[c].status \in {"PENDING", "ASSIGNED"}}

\* ORDER BY created_at DESC LIMIT 1
Latest(S) == CHOOSE c \in S : \A d \in S : d <= c

\* what handleWhatsAppMessage does with the conversation findOrCreate returned
AfterFind(status) == IF status = "COMPLETED" THEN "reopen_read" ELSE "msg_insert"

FocSelect(i) ==
    /\ calls[i].op = "post" /\ calls[i].pc = "foc_select"
    /\ LET existing == ActiveConvs(Channels[calls[i].channel].organizationId,
                                   calls[i].channel, calls[i].contact)
       IN calls' = [calls EXCEPT ![i] =
            IF existing # {}
            THEN [@ EXCEPT !.conv = Latest(existing),
                           !.pc = AfterFind(conversations[Latest(existing)].status),
                           !.ret = "msg_insert"]
            ELSE [@ EXCEPT !.pc = "foc_insert"]]
    /\ UNCHANGED <<tables, lock, queues, gateway, returned, started>>

FocInsert(i) ==
    /\ calls[i].op = "post" /\ calls[i].pc = "foc_insert"
    /\ conversations' = Append(conversations,
            NewConversation(Channels[calls[i].channel].organizationId,
                            calls[i].channel, calls[i].contact))
    /\ calls' = [calls EXCEPT ![i] =
            [@ EXCEPT !.pc = "foc_event", !.conv = Len(conversations) + 1]]
    /\ UNCHANGED <<events, messages, contacts, lock, queues, gateway, returned, started>>

FocEvent(i) ==
    /\ calls[i].op = "post" /\ calls[i].pc = "foc_event"
    /\ events' = EventsCreate(events, calls[i].conv, "CREATED", NoAgent, 0)
    /\ calls' = [calls EXCEPT ![i] =
            [@ EXCEPT !.pc = AfterFind("PENDING"), !.ret = "msg_insert"]]
    /\ UNCHANGED <<conversations, messages, contacts, lock, queues, gateway, returned, started>>

\* MessagesService.findByProviderMessageId: the index of the row, or 0
findByProviderMessageId(id) ==
    IF \E m \in 1..Len(messages) : messages[m].providerMessageId = id
    THEN CHOOSE m \in 1..Len(messages) : messages[m].providerMessageId = id
    ELSE 0

NewMessage(conv, direction, id, at) ==
    [conversationId |-> conv, direction |-> direction, providerMessageId |-> id,
     status |-> IF direction = "INBOUND" THEN "DELIVERED" ELSE "PENDING",
     createdAt |-> at]

\* MessagesService.create, INBOUND: the insert runs into the unique
\* provider_message_id when a row with that id is there
MsgInsert(i) ==
    /\ calls[i].op = "post" /\ calls[i].pc = "msg_insert"
    /\ IF findByProviderMessageId(calls[i].payload.id) # 0
       THEN /\ Throw(i, "UniqueViolation")
            /\ UNCHANGED messages
       ELSE /\ messages' = Append(messages, NewMessage(calls[i].conv, "INBOUND", calls[i].payload.id, Now))
            /\ calls' = [calls EXCEPT ![i] =
                    [@ EXCEPT !.pc = "last_message_at", !.msg = Len(messages) + 1, !.at = Now]]
            /\ UNCHANGED <<returned, started>>
    /\ UNCHANGED <<conversations, events, contacts, lock, queues, gateway>>

\* ConversationsService.updateLastMessageAt: SET lastMessageAt = new Date(), the
\* time at which the caller issued the statement
updateLastMessageAt(c, at) == [conversations EXCEPT ![c].lastMessageAt = at]

MsgLastMessageAt(i) ==
    /\ calls[i].op = "post" /\ calls[i].pc = "last_message_at"
    /\ conversations' = updateLastMessageAt(calls[i].conv, calls[i].at)
    /\ Goto(i, "msg_event")
    /\ UNCHANGED <<events, messages, contacts, lock, queues, gateway>>

\* the event of the message, and on to the reopen at the end of create
MsgEvent(i) ==
    /\ calls[i].op = "post" /\ calls[i].pc = "msg_event"
    /\ events' = EventsCreate(events, calls[i].conv, "MESSAGE_RECEIVED", NoAgent, calls[i].msg)
    /\ calls' = [calls EXCEPT ![i] =
            [@ EXCEPT !.pc = "reopen_read", !.ret = "last_message_at2"]]
    /\ UNCHANGED <<conversations, messages, contacts, lock, queues, gateway, returned, started>>

\* the second updateLastMessageAt, at the end of handleWhatsAppMessage
PostLastMessageAt(i) ==
    /\ calls[i].op = "post" /\ calls[i].pc = "last_message_at2"
    /\ conversations' = updateLastMessageAt(calls[i].conv, calls[i].at)
    /\ PostNext(i)
    /\ UNCHANGED <<events, messages, contacts, lock, queues, gateway>>

InboundStep(i) ==
    \/ UpsertSelect(i)
    \/ UpsertUpdate(i)
    \/ UpsertInsert(i)
    \/ FocSelect(i)
    \/ FocInsert(i)
    \/ FocEvent(i)
    \/ MsgInsert(i)
    \/ MsgLastMessageAt(i)
    \/ MsgEvent(i)
    \/ PostLastMessageAt(i)

\* ------------------------------------------------------------------ message status
\* MessagesService.findById: the index of the row whose id is the text id, or 0
findById(id) ==
    IF \E m \in 1..Len(messages) : Uuid(m) = id
    THEN CHOOSE m \in 1..Len(messages) : Uuid(m) = id
    ELSE 0

\* a variant of MarkFind that throws when no message has the provider id
MarkFindOrFail(i) ==
    /\ calls[i].pc = "mark_find"
    /\ IF findByProviderMessageId(calls[i].id) = 0
       THEN Throw(i, "NotFound")
       ELSE /\ calls' = [calls EXCEPT ![i] =
                    [@ EXCEPT !.pc = "us_read", !.id = Uuid(findByProviderMessageId(calls[i].id))]]
            /\ UNCHANGED <<returned, started>>
    /\ UNCHANGED <<tables, lock, queues, gateway>>

\* markDelivered / markRead: look the message up by its provider id
MarkFind(i) ==
    /\ calls[i].pc = "mark_find"
    /\ IF findByProviderMessageId(calls[i].id) = 0
       THEN PostNext(i)
       ELSE /\ calls' = [calls EXCEPT ![i] =
                    [@ EXCEPT !.pc = "us_read", !.id = Uuid(findByProviderMessageId(calls[i].id))]]
            /\ UNCHANGED <<returned, started>>
    /\ UNCHANGED <<tables, lock, queues, gateway>>

\* updateStatus(id, to): findByIdOrFail
UsRead(i) ==
    /\ calls[i].pc = "us_read"
    /\ IF findById(calls[i].id) = 0
       THEN Throw(i, "NotFound")
       ELSE /\ calls' = [calls EXCEPT ![i] =
                    [@ EXCEPT !.pc = "us_update", !.msg = findById(calls[i].id)]]
            /\ UNCHANGED <<returned, started>>
    /\ UNCHANGED <<tables, lock, queues, gateway>>

\* the event type of a status, or Null
StatusEvent(status) ==
    IF status = "DELIVERED" THEN "MESSAGE_DELIVERED"
    ELSE IF status = "READ" THEN "MESSAGE_READ"
    ELSE IF status = "FAILED" THEN "MESSAGE_FAILED"
    ELSE Null

\* updateStatus is over: a webhook POST goes on with its payload, the worker
\* throws after FAILED
UsDone(i) ==
    IF calls[i].op = "job"
    THEN /\ emit(ConvRoom(calls[i].conv), "message:updated", 0, NoAgent, calls[i].msg, "FAILED")
         /\ Return(i, "failed")
    ELSE /\ PostNext(i)
         /\ UNCHANGED gateway

UsUpdate(i) ==
    /\ calls[i].pc = "us_update"
    /\ messages' = [messages EXCEPT ![calls[i].msg].status = calls[i].to]
    /\ IF StatusEvent(calls[i].to) # Null
       THEN Goto(i, "us_event") /\ UNCHANGED gateway
       ELSE UsDone(i)
    /\ UNCHANGED <<conversations, events, contacts, lock, queues>>

UsEvent(i) ==
    /\ calls[i].pc = "us_event"
    /\ events' = EventsCreate(events, messages[calls[i].msg].conversationId,
                              StatusEvent(calls[i].to), NoAgent, calls[i].msg)
    /\ UsDone(i)
    /\ UNCHANGED <<conversations, messages, contacts, lock, queues>>

StatusStep(i) ==
    \/ MarkFind(i)
    \/ UsRead(i)
    \/ UsUpdate(i)
    \/ UsEvent(i)

\* ------------------------------------------------------------------ queues
\* QueuesService.queueOutboundMessage and queueWebhook: a job is added with attempts: 3
OutboundAttempts == 3

queueOutboundMessage(q, m) == [q EXCEPT !.outbound = @ \cup {m}]
queueWebhook(q, payload) == [q EXCEPT !.webhooks = Append(@, payload)]

\* how many attempts of the job of message m have ended
attemptsMade(op, m) == Cardinality({r \in returned : r.op = op /\ r.msg = m})

\* ------------------------------------------------------------------ outbound worker
\* an attempt of the job of message m, taken from the queue: attempts of one job
\* do not overlap, a job that completed (it stored the provider id) is not run
\* again, and a job is attempted at most OutboundAttempts times
StartJob(i, limit, m) ==
    /\ m \in queues.outbound
    /\ attemptsMade("job", m) < OutboundAttempts
    /\ m \in 1..Len(messages)
    /\ messages[m].direction = "OUTBOUND"
    /\ messages[m].providerMessageId = NoPmid
    /\ \A j \in CallIds : ~(calls[j].op = "job" /\ calls[j].msg = m)
    /\ Begin(i, limit, [IdleCall EXCEPT !.op = "job", !.pc = "load", !.msg = m,
                                        !.attempt = attemptsMade("job", m) + 1,
                                        !.conv = messages[m].conversationId])
    /\ UNCHANGED <<tables, lock, queues, gateway>>

\* the channel, the contact and the conversation of the job are read
JobLoad(i) ==
    /\ calls[i].op = "job" /\ calls[i].pc = "load"
    /\ IF Exists(calls[i].conv) THEN Goto(i, "send") ELSE Throw(i, "Error")
    /\ UNCHANGED <<tables, lock, queues, gateway>>

\* the provider accepts the message under an id of its choice, or refuses it
JobSend(i) ==
    /\ calls[i].op = "job" /\ calls[i].pc = "send"
    /\ \/ \E p \in ProviderIds :
             /\ findByProviderMessageId(p) = 0
             /\ \A j \in CallIds : calls[j].id # p
             /\ calls' = [calls EXCEPT ![i] = [@ EXCEPT !.pc = "sent", !.id = p]]
       \/ calls' = [calls EXCEPT ![i] =
             [@ EXCEPT !.pc = "us_read", !.id = Uuid(calls[i].msg), !.to = "FAILED"]]
    /\ UNCHANGED <<tables, lock, queues, gateway, returned, started>>

JobSent(i) ==
    /\ calls[i].op = "job" /\ calls[i].pc = "sent"
    /\ messages' = [messages EXCEPT ![calls[i].msg] =
            [@ EXCEPT !.providerMessageId = calls[i].id, !.status = "SENT"]]
    /\ emit(ConvRoom(calls[i].conv), "message:updated", 0, NoAgent, calls[i].msg, "SENT")
    /\ Return(i, "ok")
    /\ UNCHANGED <<conversations, events, contacts, lock, queues>>

JobStep(i) ==
    \/ JobLoad(i)
    \/ JobSend(i)
    \/ JobSent(i)

\* ------------------------------------------------------------------ send message
\* MessagesController.create: POST conversations/:conversationId/messages by agent a
StartSend(i, limit, a, c) ==
    /\ Begin(i, limit, [IdleCall EXCEPT !.op = "send", !.pc = "read", !.agent = a, !.conv = c])
    /\ UNCHANGED <<tables, lock, queues, gateway>>

\* a variant of SendCheck that leaves out the comparison of the caller with
\* assignedAgentId
SendCheckAnyone(c, a) ==
    IF ~Exists(c) THEN "NotFound" ELSE "go"

\* findByIdOrFail, then the comparison of assignedAgentId with the caller
SendCheck(c, a) ==
    IF ~Exists(c) THEN "NotFound"
    ELSE IF conversations[c].assignedAgentId # a THEN "Forbidden"
    ELSE "go"

SendRead(i) ==
    /\ calls[i].op = "send" /\ calls[i].pc = "read"
    /\ IF SendCheck(calls[i].conv, calls[i].agent) = "go"
       THEN Goto(i, "insert")
       ELSE Return(i, SendCheck(calls[i].conv, calls[i].agent))
    /\ UNCHANGED <<tables, lock, queues, gateway>>

\* MessagesService.create, OUTBOUND: the row is inserted PENDING, without a provider id
SendInsert(i) ==
    /\ calls[i].op = "send" /\ calls[i].pc = "insert"
    /\ messages' = Append(messages, NewMessage(calls[i].conv, "OUTBOUND", NoPmid, Now))
    /\ calls' = [calls EXCEPT ![i] =
            [@ EXCEPT !.pc = "last_message_at", !.msg = Len(messages) + 1, !.at = Now]]
    /\ UNCHANGED <<conversations, events, contacts, lock, queues, gateway, returned, started>>

SendLastMessageAt(i) ==
    /\ calls[i].op = "send" /\ calls[i].pc = "last_message_at"
    /\ conversations' = updateLastMessageAt(calls[i].conv, calls[i].at)
    /\ Goto(i, "event")
    /\ UNCHANGED <<events, messages, contacts, lock, queues, gateway>>

SendEvent(i) ==
    /\ calls[i].op = "send" /\ calls[i].pc = "event"
    /\ events' = EventsCreate(events, calls[i].conv, "MESSAGE_SENT", calls[i].agent, calls[i].msg)
    /\ Goto(i, "first_read")
    /\ UNCHANGED <<conversations, messages, contacts, lock, queues, gateway>>

\* ConversationsService.setFirstResponseAt: the row is read, and written when
\* firstResponseAt is not set; then create returns the message
SendFirstRead(i) ==
    /\ calls[i].op = "send" /\ calls[i].pc = "first_read"
    /\ IF conversations[calls[i].conv].firstResponseAt = NoTime
       THEN /\ calls' = [calls EXCEPT ![i] = [@ EXCEPT !.pc = "first_update", !.at = Clock]]
            /\ UNCHANGED <<returned, started>>
       ELSE Return(i, "ok")
    /\ UNCHANGED <<tables, lock, queues, gateway>>

SendFirstUpdate(i) ==
    /\ calls[i].op = "send" /\ calls[i].pc = "first_update"
    /\ conversations' = [conversations EXCEPT ![calls[i].conv].firstResponseAt = calls[i].at]
    /\ Return(i, "ok")
    /\ UNCHANGED <<events, messages, contacts, lock, queues, gateway>>

SendStep(i) ==
    \/ SendRead(i)
    \/ SendInsert(i)
    \/ SendLastMessageAt(i)
    \/ SendEvent(i)
    \/ SendFirstRead(i)
    \/ SendFirstUpdate(i)

\* ------------------------------------------------------------------ list messages
\* MessagesService.findByConversation.  The rows the query matches: those of the
\* conversation, and with a cursor that names a row, those created before it
Matching(c, cursor) ==
    {m \in 1..Len(messages) :
        /\ messages[m].conversationId = c
        /\ (cursor # NoPmid /\ findById(cursor) # 0)
              => messages[m].createdAt < messages[findById(cursor)].createdAt}

\* ORDER BY created_at DESC: every order of the rows that is descending in
\* createdAt; rows of equal createdAt come in an order the database picks
Descending(S) ==
    {s \in [1..Cardinality(S) -> S] :
        /\ \A j, k \in 1..Cardinality(S) : j # k => s[j] # s[k]
        /\ \A j, k \in 1..Cardinality(S) :
              j < k => messages[s[j]].createdAt >= messages[s[k]].createdAt}

\* LIMIT limit + 1 on the ordered rows, then hasMore, data and nextCursor
PageOf(rows, limit) ==
    LET result == SubSeq(rows, 1, IF Len(rows) > limit + 1 THEN limit + 1 ELSE Len(rows))
        hasMore == Len(result) > limit
        data == IF hasMore THEN SubSeq(result, 1, limit) ELSE result
    IN  [data |-> data,
         nextCursor |-> IF hasMore THEN Uuid(data[Len(data)]) ELSE NoPmid]

\* a client lists conversation c page by page, limit rows a page, following
\* nextCursor; todo collects the rows of the pages
StartPage(i, limit, c, n) ==
    /\ Begin(i, limit, [IdleCall EXCEPT !.op = "page", !.pc = "query", !.conv = c, !.limit = n])
    /\ UNCHANGED <<tables, lock, queues, gateway>>

\* MessagesController.findAll: one request, with the cursor the page before gave
PageQuery(i) ==
    /\ calls[i].op = "page" /\ calls[i].pc = "query"
    /\ \E rows \in Descending(Matching(calls[i].conv, calls[i].id)) :
          LET page == PageOf(rows, calls[i].limit)
          IN  calls' = [calls EXCEPT ![i] =
                  [@ EXCEPT !.todo = @ \o page.data,
                            !.id = page.nextCursor,
                            !.pc = IF page.nextCursor = NoPmid THEN "last" ELSE "query"]]
    /\ UNCHANGED <<tables, lock, queues, gateway, returned, started>>

\* nextCursor was null: the client has every page
PageLast(i) ==
    /\ calls[i].op = "page" /\ calls[i].pc = "last"
    /\ Return(i, "ok")
    /\ UNCHANGED <<tables, lock, queues, gateway>>

PageStep(i) ==
    \/ PageQuery(i)
    \/ PageLast(i)

\* ------------------------------------------------------------------ initial states
ConvIn(status, a) ==
    [NewConversation("o1", "ch1", 1) EXCEPT
        !.status = status, !.assignedAgentId = a, !.lastMessageAt = 1]

\* contact k, stored by the upsert of the inbound message that created
\* conversation k; the message had no profile name
SeedContact(org, k) ==
    NewContact(org, IF k = 1 THEN "k1" ELSE "k2", IF k = 1 THEN "k1" ELSE "k2", k - 1)

\* the inbound message that created conversation c
SeedMessage(c) == NewMessage(c, "INBOUND", <<"seed", c>>, c)

\* the events a sequential run appends to conversation c on its way to status
TrailOf(c, status, a) ==
    <<NewEvent("CREATED", NoAgent, 0), NewEvent("MESSAGE_RECEIVED", NoAgent, c)>>
    \o (IF status = "PENDING" THEN <<>> ELSE <<NewEvent("ACCEPTED", a, 0)>>)
    \o (IF status = "COMPLETED" THEN <<NewEvent("COMPLETED", a, 0)>> ELSE <<>>)

\* ------------------------------------------------------------------ SpecAccept
\* Accept calls by distinct agents racing for one PENDING conversation.
NoLocks == [c \in ConvIds |-> Null]
NoCalls == [i \in CallIds |-> IdleCall]
NoJobs == [webhooks |-> <<>>, outbound |-> {}]

InitAccept ==
    /\ conversations = <<ConvIn("PENDING", NoAgent)>>
    /\ events = [c \in ConvIds |-> IF c = 1 THEN TrailOf(1, "PENDING", NoAgent) ELSE <<>>]
    /\ messages = <<SeedMessage(1)>>
    /\ contacts = <<SeedContact("o1", 1)>>
    /\ lock = NoLocks
    /\ queues = NoJobs
    /\ NoEmissions
    /\ calls = NoCalls
    /\ returned = {}
    /\ started = 0

NextAccept ==
    \/ \E i \in CallIds, a \in Agents :
          /\ \A j \in CallIds : calls[j].agent # a
          /\ \A r \in returned : r.agent # a
          /\ StartAccept(i, MaxCalls, a, 1)
    \/ \E i \in CallIds : AcceptStep(i)
    \/ \E c \in ConvIds : LockExpire(c)

SpecAccept == InitAccept /\ [][NextAccept]_vars

\* ------------------------------------------------------------------ SpecCrash
\* Accept calls on one PENDING conversation; the backend process of a request may
\* stop between two awaits, after which its finally block never runs.
Crash(i) ==
    /\ calls[i].op = "accept" /\ calls[i].pc # "acquire"
    /\ Return(i, "crashed")
    /\ UNCHANGED <<tables, lock, queues, gateway>>

NextCrash ==
    \/ \E i \in CallIds, a \in Agents : StartAccept(i, MaxCalls, a, 1)
    \/ \E i \in CallIds : AcceptStep(i)
    \/ \E i \in CallIds : Crash(i)
    \/ \E c \in ConvIds : LockExpire(c)

SpecCrash == InitAccept /\ [][NextCrash]_vars

\* the event loop runs every continuation that is ready, and Valkey removes a
\* key whose PX ttl has elapsed
SpecCrashFair ==
    /\ SpecCrash
    /\ WF_vars(\E i \in CallIds : AcceptStep(i))
    /\ \A c \in ConvIds : WF_vars(LockExpire(c))

\* ------------------------------------------------------------------ SpecConv
\* The operations of ConversationsService on one conversation, called by any agent
\* at any time.  The conversation starts in a state a sequential run reaches:
\* created, or created and accepted by an agent.
StartStates ==
    {<<"PENDING", NoAgent>>} \cup ({"ASSIGNED"} \X Agents)

InitConv ==
    /\ \E st \in StartStates :
          /\ conversations = <<ConvIn(st[1], st[2])>>
          /\ events = [c \in ConvIds |-> IF c = 1 THEN TrailOf(1, st[1], st[2]) ELSE <<>>]
    /\ messages = <<SeedMessage(1)>>
    /\ contacts = <<SeedContact("o1", 1)>>
    /\ lock = NoLocks
    /\ queues = NoJobs
    /\ NoEmissions
    /\ calls = NoCalls
    /\ returned = {}
    /\ started = 0

NextConv ==
    \/ \E i \in CallIds, a \in Agents : StartAccept(i, MaxCalls, a, 1)
    \/ \E i \in CallIds, a \in Agents : StartRelease(i, MaxCalls, a, 1)
    \/ \E i \in CallIds, a \in Agents : StartComplete(i, MaxCalls, a, 1)
    \/ \E i \in CallIds : StartReopen(i, MaxCalls, 1)
    \/ \E i \in CallIds, k \in AgentSockets : StartDisconnect(i, MaxCalls, k)
    \/ \E i \in CallIds : AcceptStep(i)
    \/ \E i \in CallIds : ReleaseStep(i)
    \/ \E i \in CallIds : CompleteStep(i)
    \/ \E i \in CallIds : ReopenStep(i)
    \/ \E i \in CallIds : RbaStep(i)
    \/ \E c \in ConvIds : LockExpire(c)

SpecConv == InitConv /\ [][NextConv]_vars

\* ------------------------------------------------------------------ SpecDisconnect
\* An agent holding two conversations disconnects while requests of their own and
\* of another agent are in flight.
InitDisconnect ==
    /\ conversations = <<ConvIn("ASSIGNED", "a1"),
                         [ConvIn("ASSIGNED", "a1") EXCEPT !.contactId = 2, !.lastMessageAt = 2]>>
    /\ events = [c \in ConvIds |-> IF c \in {1, 2} THEN TrailOf(c, "ASSIGNED", "a1") ELSE <<>>]
    /\ messages = <<SeedMessage(1), SeedMessage(2)>>
    /\ contacts = <<SeedContact("o1", 1), SeedContact("o1", 2)>>
    /\ lock = NoLocks
    /\ queues = NoJobs
    /\ NoEmissions
    /\ calls = NoCalls
    /\ returned = {}
    /\ started = 0

NextDisconnect ==
    \/ \E i \in CallIds, k \in AgentSockets : StartDisconnect(i, MaxRace, k)
    \/ \E i \in CallIds, a \in Agents, c \in 1..2 : StartAccept(i, MaxRace, a, c)
    \/ \E i \in CallIds, a \in Agents, c \in 1..2 : StartRelease(i, MaxRace, a, c)
    \/ \E i \in CallIds : AcceptStep(i)
    \/ \E i \in CallIds : ReleaseStep(i)
    \/ \E i \in CallIds : RbaStep(i)

SpecDisconnect == InitDisconnect /\ [][NextDisconnect]_vars

\* ------------------------------------------------------------------ SpecSockets
\* The sockets of three users of two organizations join and leave conversation
\* rooms and disconnect; a query of releaseByAgent may fail.  Conversation 1
\* belongs to o1 and is held by a1, conversation 2 belongs to o2.
InitSockets ==
    /\ conversations = <<ConvIn("ASSIGNED", "a1"),
                         [NewConversation("o2", "ch2", 2) EXCEPT !.lastMessageAt = 2]>>
    /\ events = [c \in ConvIds |->
                    IF c = 1 THEN TrailOf(1, "ASSIGNED", "a1")
                    ELSE IF c = 2 THEN TrailOf(2, "PENDING", NoAgent) ELSE <<>>]
    /\ messages = <<SeedMessage(1), SeedMessage(2)>>
    /\ contacts = <<SeedContact("o1", 1), SeedContact("o2", 2)>>
    /\ lock = NoLocks
    /\ queues = NoJobs
    /\ NoEmissions
    /\ calls = NoCalls
    /\ returned = {}
    /\ started = 0

NextSockets ==
    \/ \E i \in CallIds, k \in SocketIds, c \in 1..3 : StartJoin(i, MaxCalls, k, c)
    \/ \E i \in CallIds : JoinFind(i)
    \/ \E k \in SocketIds, c \in 1..3 : LeaveConversation(k, c)
    \/ \E i \in CallIds, k \in SocketIds : StartDisconnect(i, MaxCalls, k)
    \/ \E i \in CallIds : RbaStep(i)
    \/ \E i \in CallIds : RbaFail(i)

SpecSockets == InitSockets /\ [][NextSockets]_vars

\* ------------------------------------------------------------------ SpecConnect
\* Sockets connect and disconnect: a second socket of agent a1, who holds
\* conversation 1 and is connected with a first socket, and sockets whose
\* handshake lacks the userId or the organizationId.
NextConnect ==
    \/ \E i \in CallIds, k \in SocketIds : StartConnect(i, MaxCalls, k)
    \/ \E i \in CallIds : ConnectStep(i)
    \/ \E k \in SocketIds : RejectConnection(MaxCalls, k)
    \/ \E k \in SocketIds : DisconnectRejected(k)
    \/ \E i \in CallIds, k \in SocketIds : StartDisconnect(i, MaxCalls, k)
    \/ \E i \in CallIds : RbaStep(i)

SpecConnect == InitSockets /\ [][NextConnect]_vars

\* ------------------------------------------------------------------ SpecInbound
\* Deliveries of inbound messages of one sender on one channel, signed with the
\* channel's secret, while the agent holding the conversation may complete it.  The
\* run starts with nothing stored, or with the sender's conversation in a state a
\* sequential run reaches.
InboundStarts ==
    {<<"none", NoAgent>>, <<"PENDING", NoAgent>>, <<"ASSIGNED", "a1">>, <<"COMPLETED", "a1">>}

InitInbound ==
    /\ \E st \in InboundStarts :
          IF st[1] = "none"
          THEN /\ conversations = <<>>
               /\ events = [c \in ConvIds |-> <<>>]
               /\ messages = <<>>
               /\ contacts = <<>>
          ELSE /\ conversations = <<ConvIn(st[1], st[2])>>
               /\ events = [c \in ConvIds |-> IF c = 1 THEN TrailOf(1, st[1], st[2]) ELSE <<>>]
               /\ messages = <<SeedMessage(1)>>
               /\ contacts = <<SeedContact("o1", 1)>>
    /\ lock = NoLocks
    /\ queues = NoJobs
    /\ NoEmissions
    /\ calls = NoCalls
    /\ returned = {}
    /\ started = 0

\* a signature header: prefix and HMAC of the raw body under secret
Signature(prefix, secret, payload) ==
    [prefix |-> prefix, hash |-> Hmac(secret, rawBody(payload))]

NextInbound ==
    \/ \E i \in CallIds, p \in ProviderIds :
          StartPost(i, MaxCalls, "ch1", Signature("sha256=", "s1", MessagePayload("pn1", "k1", p)),
                    MessagePayload("pn1", "k1", p))
    \/ \E i \in CallIds, a \in Agents : StartComplete(i, MaxCalls, a, 1)
    \/ \E i \in CallIds : PostStep(i)
    \/ \E i \in CallIds : InboundStep(i)
    \/ \E i \in CallIds : ReopenStep(i)
    \/ \E i \in CallIds : CompleteStep(i)

SpecInbound == InitInbound /\ [][NextInbound]_vars

\* ------------------------------------------------------------------ SpecUpsert
\* Deliveries of inbound messages of one sender whose payloads carry a profile
\* name, which may be empty and may change from one message to the next.
ProfileNames == {"", "Ann", "Bob"}

NextUpsert ==
    \/ \E i \in CallIds, p \in ProviderIds, name \in ProfileNames :
          StartPost(i, MaxCalls, "ch1",
                    Signature("sha256=", "s1", Named(MessagePayload("pn1", "k1", p), name)),
                    Named(MessagePayload("pn1", "k1", p), name))
    \/ \E i \in CallIds, a \in Agents : StartComplete(i, MaxCalls, a, 1)
    \/ \E i \in CallIds : PostStep(i)
    \/ \E i \in CallIds : InboundStep(i)
    \/ \E i \in CallIds : ReopenStep(i)
    \/ \E i \in CallIds : CompleteStep(i)

SpecUpsert == InitInbound /\ [][NextUpsert]_vars

\* ------------------------------------------------------------------ SpecUnmatched
\* Deliveries to channel ch1 whose payloads have an entry for a phone number id
\* that no channel has, alone or before or behind an entry for pn1.
UnmatchedEntry == MessagePayload("pn9", "k1", <<"wamid", 2>>)
MatchedEntry == MessagePayload("pn1", "k1", <<"wamid", 1>>)

UnmatchedPayloads ==
    {UnmatchedEntry, MatchedEntry, Batch(UnmatchedEntry, MatchedEntry),
     Batch(MatchedEntry, UnmatchedEntry)}

NextUnmatched ==
    \/ \E i \in CallIds, payload \in UnmatchedPayloads :
          StartPost(i, MaxCalls, "ch1", Signature("sha256=", "s1", payload), payload)
    \/ \E i \in CallIds, a \in Agents : StartComplete(i, MaxCalls, a, 1)
    \/ \E i \in CallIds : PostStep(i)
    \/ \E i \in CallIds : InboundStep(i)
    \/ \E i \in CallIds : ReopenStep(i)
    \/ \E i \in CallIds : CompleteStep(i)

SpecUnmatched == InitInbound /\ [][NextUnmatched]_vars

\* ------------------------------------------------------------------ SpecBinding
\* Signed deliveries to the URL of channel ch1, and deliveries to the URL of
\* ch2, whose payload names the phone number of ch1 or that of ch2.
BindingPayloads == {MessagePayload(pn, "k1", <<"wamid", 1>>) : pn \in {"pn1", "pn2"}}

NextBinding ==
    \/ \E i \in CallIds, url \in ChannelIds, payload \in BindingPayloads :
          StartPost(i, MaxCalls, url, Signature("sha256=", "s1", payload), payload)
    \/ \E i \in CallIds, a \in Agents : StartComplete(i, MaxCalls, a, 1)
    \/ \E i \in CallIds : PostStep(i)
    \/ \E i \in CallIds : InboundStep(i)
    \/ \E i \in CallIds : ReopenStep(i)
    \/ \E i \in CallIds : CompleteStep(i)

SpecBinding == InitInbound /\ [][NextBinding]_vars

\* ------------------------------------------------------------------ SpecGate
\* Webhook POSTs with every kind of signature header, to a channel with an
\* appSecret, to one without, and to an unknown channel.
Truncated(signature) == [signature EXCEPT !.hash.len = @ - 1]

Signatures(payload) ==
    {NoSignature,
     Signature("sha256=", "s1", payload),
     Signature("sha1=", "s1", payload),
     Signature("sha256=", "s0", payload),
     Signature("sha256=", "s1", NoPayload),
     Truncated(Signature("sha256=", "s1", payload))}

GatePayloads == {MessagePayload(pn, "k1", <<"wamid", 1>>) : pn \in {"pn1", "pn9"}}

NextGate ==
    \/ \E i \in CallIds, url \in {"ch1", "ch2", "ch9"}, payload \in GatePayloads :
          \E signature \in Signatures(payload) :
             StartPost(i, MaxCalls, url, signature, payload)
    \/ \E i \in CallIds, a \in Agents : StartComplete(i, MaxCalls, a, 1)
    \/ \E i \in CallIds : PostStep(i)
    \/ \E i \in CallIds : InboundStep(i)
    \/ \E i \in CallIds : ReopenStep(i)
    \/ \E i \in CallIds : CompleteStep(i)

SpecGate == InitInbound /\ [][NextGate]_vars

\* ------------------------------------------------------------------ SpecBatch
\* Deliveries whose payload holds one entry or two: messages of one sender and
\* status callbacks, signed with the channel's secret.  A provider delivers a
\* payload again, and puts a message it delivered before into a later payload.
\* The agent holding the conversation may complete it meanwhile.
Entries ==
    {MessagePayload("pn1", "k1", p) : p \in ProviderIds}
    \cup {StatusPayload("pn1", <<"wamid", 1>>, st) : st \in {"sent", "delivered"}}

BatchPayloads ==
    Entries \cup UNION {{Batch(e, f) : f \in Entries \ {e}} : e \in Entries}

NextBatch ==
    \/ \E i \in CallIds, payload \in BatchPayloads :
          StartPost(i, MaxCalls, "ch1", Signature("sha256=", "s1", payload), payload)
    \/ \E i \in CallIds : PostStep(i)
    \/ \E i \in CallIds : InboundStep(i)
    \/ \E i \in CallIds : StatusStep(i)
    \/ \E i \in CallIds : ReopenStep(i)
    \/ \E i \in CallIds, a \in Agents : StartComplete(i, MaxCalls, a, 1)
    \/ \E i \in CallIds : CompleteStep(i)

SpecBatch == InitInbound /\ [][NextBatch]_vars

\* ------------------------------------------------------------------ SpecRedelivery
\* The provider delivers again the message that opened the conversation, next to a
\* new message of the same sender, while the conversation may be completed.
Redelivered == {SeedMessage(1).providerMessageId, <<"wamid", 1>>}

NextRedelivery ==
    \/ \E i \in CallIds, p \in Redelivered :
          StartPost(i, MaxCalls, "ch1", Signature("sha256=", "s1", MessagePayload("pn1", "k1", p)),
                    MessagePayload("pn1", "k1", p))
    \/ \E i \in CallIds, a \in Agents : StartComplete(i, MaxCalls, a, 1)
    \/ \E i \in CallIds : PostStep(i)
    \/ \E i \in CallIds : InboundStep(i)
    \/ \E i \in CallIds : ReopenStep(i)
    \/ \E i \in CallIds : CompleteStep(i)

SpecRedelivery == InitInbound /\ [][NextRedelivery]_vars

\* ------------------------------------------------------------------ SpecStatus
\* Status callbacks and worker attempts for one outbound message of an assigned
\* conversation.  The message starts as the send endpoint stored it (PENDING, no
\* provider id), or as a successful worker attempt left it (SENT, provider id).
\* Its job is on the queue outbound-messages as queueOutboundMessage adds it; the
\* worker takes its jobs from there, whoever added them.
OutboundStarts == {<<"PENDING", NoPmid>>, <<"SENT", <<"wamid", 1>>>>}

InitStatus ==
    /\ conversations = <<[ConvIn("ASSIGNED", "a1") EXCEPT !.firstResponseAt = 2,
                                                          !.lastMessageAt = 2]>>
    /\ events = [c \in ConvIds |->
            IF c = 1 THEN TrailOf(1, "ASSIGNED", "a1") \o <<NewEvent("MESSAGE_SENT", "a1", 2)>>
            ELSE <<>>]
    /\ \E st \in OutboundStarts :
          messages = <<SeedMessage(1),
                       [NewMessage(1, "OUTBOUND", st[2], 2) EXCEPT !.status = st[1]]>>
    /\ contacts = <<SeedContact("o1", 1)>>
    /\ lock = NoLocks
    /\ queues = queueOutboundMessage(NoJobs, 2)
    /\ NoEmissions
    /\ calls = NoCalls
    /\ returned = {}
    /\ started = 0

StatusNames == {"sent", "delivered", "read", "failed"}

\* payloads of one status callback, and one of two: a delivered callback for an
\* id the provider never gave to a message of this channel, then a read callback
StatusPayloads ==
    {StatusPayload("pn1", p, st) : p \in ProviderIds, st \in StatusNames}
    \cup {Batch(StatusPayload("pn1", <<"wamid", 2>>, "delivered"),
                StatusPayload("pn1", <<"wamid", 1>>, "read"))}

NextStatus ==
    \/ \E i \in CallIds, payload \in StatusPayloads :
          StartPost(i, MaxCalls, "ch1", Signature("sha256=", "s1", payload), payload)
    \/ \E i \in CallIds : StartJob(i, MaxCalls, 2)
    \/ \E i \in CallIds : PostStep(i)
    \/ \E i \in CallIds : StatusStep(i)
    \/ \E i \in CallIds : JobStep(i)

SpecStatus == InitStatus /\ [][NextStatus]_vars

\* ------------------------------------------------------------------ SpecSend
\* Agents send messages into one conversation while it is released or completed.
\* Request ids beyond the rows of the table name no conversation.
NextSend ==
    \/ \E i \in CallIds, a \in Agents, c \in 1..2 : StartSend(i, MaxCalls, a, c)
    \/ \E i \in CallIds, a \in Agents : StartRelease(i, MaxCalls, a, 1)
    \/ \E i \in CallIds, a \in Agents : StartComplete(i, MaxCalls, a, 1)
    \/ \E i \in CallIds : SendStep(i)
    \/ \E i \in CallIds : ReleaseStep(i)
    \/ \E i \in CallIds : CompleteStep(i)

SpecSend == InitConv /\ [][NextSend]_vars

\* the event loop runs every continuation that is ready
SendSteps == \E i \in CallIds : SendStep(i) \/ ReleaseStep(i) \/ CompleteStep(i)

SpecSendFair == SpecSend /\ WF_vars(SendSteps)

\* ------------------------------------------------------------------ SpecPage
\* A client pages through the messages of one conversation; nothing is inserted
\* meanwhile.  The conversation holds up to MaxRows inbound messages whose
\* createdAt rises with the insertion order, two inserts of the same instant
\* sharing their createdAt.
MaxRows == 4
MaxTime == 3
MaxLimit == 2

\* createdAt of the rows, in insertion order
Times ==
    UNION {{t \in [1..n -> 1..MaxTime] : t[1] = 1 /\ \A k \in 1..(n - 1) : t[k] <= t[k + 1]}
           : n \in 1..MaxRows}

InitPage ==
    /\ \E t \in Times :
          /\ conversations = <<[ConvIn("PENDING", NoAgent) EXCEPT !.lastMessageAt = t[Len(t)]]>>
          /\ messages = [k \in 1..Len(t) |->
                IF k = 1 THEN SeedMessage(1)
                ELSE NewMessage(1, "INBOUND", <<"wamid", k>>, t[k])]
          /\ events = [c \in ConvIds |->
                IF c = 1
                THEN TrailOf(1, "PENDING", NoAgent)
                     \o [k \in 1..(Len(t) - 1) |-> NewEvent("MESSAGE_RECEIVED", NoAgent, k + 1)]
                ELSE <<>>]
    /\ contacts = <<SeedContact("o1", 1)>>
    /\ lock = NoLocks
    /\ queues = NoJobs
    /\ NoEmissions
    /\ calls = NoCalls
    /\ returned = {}
    /\ started = 0

NextPage ==
    \/ \E i \in CallIds, n \in 1..MaxLimit : StartPage(i, 1, 1, n)
    \/ \E i \in CallIds : PageStep(i)

SpecPage == InitPage /\ [][NextPage]_vars

\* ================================================================== claims
AllReturned == started >= 1 /\ \A i \in CallIds : calls[i].op = "idle"

Successes(op) == {r \in returned : r.op = op /\ r.result = "ok"}

\* C1 (as claimed): when the accept calls of distinct agents racing for one PENDING
\* conversation have all returned, exactly one returned success, every other one
\* returned Conflict, and the conversation is ASSIGNED to the successful caller.
C1_AcceptExclusive ==
    AllReturned =>
        /\ Cardinality(Successes("accept")) = 1
        /\ \A r \in returned : r.result \in {"ok", "Conflict"}
        /\ \E r \in Successes("accept") :
              /\ conversations[r.conv].status = "ASSIGNED"
              /\ conversations[r.conv].assignedAgentId = r.agent

\* C8 (as claimed): the unlock at the end of accept removes lock:conversation:{id}
\* only if the stored value is the unlocking agent's id, so it never removes a lock
\* that another agent acquired after the holder's lock expired.
C8_OwnerScopedUnlock ==
    [][\A i \in CallIds :
         (calls[i].op = "accept" /\ calls[i].pc = "unlock" /\ calls'[i].op = "idle")
            => (lock'[calls[i].conv] # lock[calls[i].conv]
                   => lock[calls[i].conv] = calls[i].agent)]_vars

\* C2 (as claimed): in every reachable state a conversation is ASSIGNED if and only
\* if its assignedAgentId is set.
C2_OwnershipIff ==
    \A c \in 1..Len(conversations) :
        (conversations[c].status = "ASSIGNED") <=> (conversations[c].assignedAgentId # NoAgent)

\* C2 (amended): in every reachable state an ASSIGNED conversation has its
\* assignedAgentId set and a PENDING conversation has it null; and the write of
\* complete sets the status to COMPLETED and leaves assignedAgentId as it was.
C2_Ownership ==
    /\ [](\A c \in 1..Len(conversations) :
            /\ conversations[c].status = "ASSIGNED" => conversations[c].assignedAgentId \in Agents
            /\ conversations[c].status = "PENDING" => conversations[c].assignedAgentId = NoAgent)
    /\ [][\A i \in CallIds :
            (calls[i].op = "complete" /\ calls[i].pc = "update" /\ calls'[i] # calls[i])
               => /\ conversations'[calls[i].conv].status = "COMPLETED"
                  /\ conversations'[calls[i].conv].assignedAgentId
                        = conversations[calls[i].conv].assignedAgentId]_vars

\* a conversation completed by its agent and reopened: PENDING with no agent again
C2_Witness ==
    /\ Successes("complete") # {}
    /\ \E e \in 1..Len(events[1]) : events[1][e].eventType = "COMPLETED"
    /\ \E e \in 1..Len(events[1]) : events[1][e].eventType = "REOPENED"
    /\ conversations[1].status = "PENDING"
    /\ conversations[1].assignedAgentId = NoAgent

\* C10: when release or complete reads a conversation ASSIGNED to another agent, the
\* call returns Forbidden at that step, and conversations and event trails are as
\* they were.
C10_NonOwnerForbidden ==
    [][\A i \in CallIds :
         (/\ calls[i].op \in {"release", "complete"}
          /\ calls[i].pc = "read"
          /\ calls'[i] # calls[i]
          /\ Exists(calls[i].conv)
          /\ conversations[calls[i].conv].status = "ASSIGNED"
          /\ conversations[calls[i].conv].assignedAgentId # calls[i].agent)
            => /\ Response(calls[i], "Forbidden") \in returned'
               /\ calls'[i] = IdleCall
               /\ conversations' = conversations
               /\ events' = events]_vars

\* release and complete by a non-owner were both refused, the owner still holds it
C10_Witness ==
    /\ \E r \in returned : r.op = "release" /\ r.result = "Forbidden"
    /\ \E r \in returned : r.op = "complete" /\ r.result = "Forbidden"
    /\ conversations[1].status = "ASSIGNED"
    /\ \A r \in returned : r.agent # conversations[1].assignedAgentId

\* C7 (as claimed): each write of the disconnect handler takes a conversation of the
\* disconnecting agent to PENDING with a null assignedAgentId, and changes no
\* conversation that is assigned to another agent; each event it appends is one
\* AGENT_DISCONNECTED of that agent on the conversation just released.
C7_ReleaseOnDisconnect ==
    [][\A i \in CallIds :
         /\ (calls[i].op = "releaseByAgent" /\ calls[i].pc = "update" /\ calls'[i].pc = "event")
               => /\ conversations'[Head(calls[i].todo)].status = "PENDING"
                  /\ conversations'[Head(calls[i].todo)].assignedAgentId = NoAgent
                  /\ \A d \in 1..Len(conversations) :
                        (/\ conversations[d].status = "ASSIGNED"
                         /\ conversations[d].assignedAgentId # calls[i].agent)
                            => conversations'[d] = conversations[d]
         /\ (calls[i].op = "releaseByAgent" /\ calls[i].pc = "event" /\ calls'[i] # calls[i])
               => events' = EventsCreate(events, Head(calls[i].todo), "AGENT_DISCONNECTED",
                                         calls[i].agent, 0)]_vars

\* the conversations of a (organizationId, channelId, contactId) that are open
ActiveOf(c) ==
    ActiveConvs(conversations[c].organizationId, conversations[c].channelId,
                conversations[c].contactId)

\* C3 (as claimed): in every reachable state at most one conversation of a
\* (organizationId, channelId, contactId) has status PENDING or ASSIGNED.
C3_UniqueActive ==
    \A c \in 1..Len(conversations) : Cardinality(ActiveOf(c)) <= 1

\* the message rows with provider id p, and the MESSAGE_RECEIVED events for them
RowsOf(p) == {m \in 1..Len(messages) : messages[m].providerMessageId = p}

ReceivedOf(p) ==
    {<<c, e>> \in ConvIds \X (1..(2 * MaxConvs + 4)) :
        /\ e <= Len(events[c])
        /\ events[c][e].eventType = "MESSAGE_RECEIVED"
        /\ events[c][e].messageId \in RowsOf(p)}

\* C4 (as claimed): once a webhook payload with provider id p has been delivered
\* one or more times and every delivery of it has been answered, there is exactly
\* one message row with that providerMessageId and exactly one MESSAGE_RECEIVED
\* event for it.
C4_WebhookIdempotent ==
    \A p \in ProviderIds :
        (/\ \E r \in returned : r.op = "post" /\ r.id = p
         /\ \A i \in CallIds : ~(calls[i].op = "post" /\ calls[i].payload.id = p))
            => /\ Cardinality(RowsOf(p)) = 1
               /\ Cardinality(ReceivedOf(p)) = 1

\* the order of the message statuses; FAILED ends every sequence
StatusRank(status) ==
    CASE status = "PENDING" -> 0
      [] status = "SENT" -> 1
      [] status = "DELIVERED" -> 2
      [] status = "READ" -> 3
      [] status = "FAILED" -> 4

\* C5 (as claimed): every change of a message's persisted status moves forward in
\* PENDING, SENT, DELIVERED, READ or to FAILED; a callback that would move the
\* status backwards leaves it as it was.
C5_StatusMonotone ==
    [][\A m \in 1..Len(messages) :
          messages'[m].status # messages[m].status
             => StatusRank(messages'[m].status) > StatusRank(messages[m].status)]_vars

\* C6 (as claimed): when one inbound message of the contact has been processed
\* against the contact's COMPLETED conversation, that conversation is PENDING with
\* assignedAgentId null, a REOPENED event is on its trail, and the message is
\* attached to it.
C6_ReopenOnInbound ==
    (/\ started = 1
     /\ AllReturned
     /\ \E r \in returned : r.op = "post"
     /\ \E e \in 1..Len(events[1]) : events[1][e].eventType = "COMPLETED")
        => /\ conversations[1].status = "PENDING"
           /\ conversations[1].assignedAgentId = NoAgent
           /\ \E e \in 1..Len(events[1]) : events[1][e].eventType = "REOPENED"
           /\ \A r \in returned : \E m \in RowsOf(r.id) : messages[m].conversationId = 1

\* the signature header of a request is the valid one for its raw body
ValidFor(call) ==
    call.sig = Signature("sha256=", Channels[call.url].appSecret, call.payload)

\* C9 (as claimed): a webhook POST to a channel with an appSecret whose signature
\* header is not valid for the raw body writes nothing to any table, and the
\* answer it gets is 401.
C9_SignatureGate ==
    [][\A i \in CallIds :
         (/\ calls[i].op = "post"
          /\ calls[i].url \in ChannelIds
          /\ Channels[calls[i].url].appSecret # Null
          /\ ~ValidFor(calls[i])
          /\ calls'[i] # calls[i])
            => /\ tables' = tables
               /\ calls'[i].op = "idle" => Response(calls[i], "401") \in returned']_vars

\* the message rows that can exist in a run
MsgIds == 1..(MaxRace + 1)

IsPendingOutbound(m) ==
    /\ m <= Len(messages)
    /\ messages[m].direction = "OUTBOUND"
    /\ messages[m].status = "PENDING"

\* C11 (as claimed): when the send endpoint returns the message it created, a job
\* for that message is on the queue outbound-messages; and every OUTBOUND message
\* that is PENDING leaves PENDING (to SENT or FAILED) in the end.
C11_OutboundProgress ==
    /\ [][\A i \in CallIds :
            (calls[i].op = "send" /\ calls[i].msg # 0 /\ calls'[i].op = "idle")
                => calls[i].msg \in queues'.outbound]_vars
    /\ \A m \in MsgIds :
            IsPendingOutbound(m) ~> (m <= Len(messages) /\ messages[m].status # "PENDING")

\* a step of send call i that ends its authorization check
SendChecked(i) ==
    /\ calls[i].op = "send" /\ calls[i].pc = "read"
    /\ calls'[i] # calls[i]
    /\ Exists(calls[i].conv)

\* C12: the send endpoint goes on to create the message only if the conversation's
\* assignedAgentId is the caller when it is checked; otherwise the call ends there
\* with Forbidden and writes nothing; and only a send call past its check inserts
\* an OUTBOUND row.
C12_SendAuthorized ==
    /\ [][\A i \in CallIds : SendChecked(i) =>
            IF conversations[calls[i].conv].assignedAgentId = calls[i].agent
            THEN calls'[i].pc = "insert"
            ELSE /\ calls'[i].op = "idle"
                 /\ Response(calls[i], "Forbidden") \in returned'
                 /\ tables' = tables]_vars
    /\ [][\A i \in CallIds :
            (calls[i].op = "send" /\ calls[i].pc = "read" /\ calls'[i] # calls[i])
                => tables' = tables]_vars
    /\ [][(Len(messages') > Len(messages) /\ messages'[Len(messages')].direction = "OUTBOUND")
            => \E i \in CallIds : calls[i].op = "send" /\ calls[i].pc = "insert"]_vars
    /\ [](\A r \in returned : (r.op = "send" /\ r.result # "ok") => r.msg = 0)

\* a send by the assigned agent created a message, one by another agent was refused
C12_Witness ==
    /\ \E r \in returned : r.op = "send" /\ r.result = "Forbidden"
    /\ \E r \in returned :
          /\ r.op = "send" /\ r.result = "ok"
          /\ r.msg <= Len(messages) /\ messages[r.msg].direction = "OUTBOUND"

\* C13 (as claimed): when a client has followed nextCursor from the first page to
\* the page whose nextCursor is null, the pages together hold every message of the
\* conversation exactly once, in non-increasing createdAt order.
C13_PaginationComplete ==
    \A i \in CallIds :
        (calls[i].op = "page" /\ calls[i].pc = "last") =>
            LET got == calls[i].todo
            IN  /\ {got[k] : k \in 1..Len(got)} = Matching(calls[i].conv, NoPmid)
                /\ \A j, k \in 1..Len(got) : j # k => got[j] # got[k]
                /\ \A j, k \in 1..Len(got) :
                      j < k => messages[got[j]].createdAt >= messages[got[k]].createdAt

\* a step in which POST i, past the channel lookup and the signature check, ends
PostAnswered(i) ==
    /\ calls[i].op = "post" /\ calls[i].pc # "gate"
    /\ calls'[i].op = "idle"

\* C14: a POST whose channel exists and whose signature check passed is answered
\* 200, whatever its processing ran into.
C14_AlwaysAcknowledged ==
    /\ [][\A i \in CallIds : PostAnswered(i) =>
            /\ Response(calls[i], "200") \in returned'
            /\ \A r \in returned' \ returned : r.result = "200"]_vars
    /\ [](\A r \in returned : r.op = "post" => r.result \in {"200", "400", "401", "500"})

\* a delivery of a message ran into a unique constraint: it stored no row, another
\* delivery stored the row of that provider id, and both were answered 200
C14_Witness ==
    \E r \in returned :
        /\ r.op = "post" /\ r.result = "200" /\ r.msg = 0
        /\ r.id \in ProviderIds
        /\ findByProviderMessageId(r.id) # 0
        /\ \E q \in returned : q.op = "post" /\ q.id = r.id /\ q.msg # 0

\* a step of POST i
PostActs(i) == calls[i].op = "post" /\ calls'[i] # calls[i]

\* C15 (as claimed): a POST that passes the channel lookup and the signature check
\* adds exactly one job with its payload to the queue webhooks and is answered 200
\* there; no step of a POST writes to the tables, the processor alone does.
C15_ReceiverDefers ==
    /\ [][\A i \in CallIds :
            (PostActs(i) /\ calls[i].pc = "gate"
                /\ Gate(calls[i].url, calls[i].sig, calls[i].payload) = "go")
            => /\ queues' = queueWebhook(queues, calls[i].payload)
               /\ Response(calls[i], "200") \in returned']_vars
    /\ [][\A i \in CallIds : PostActs(i) => tables' = tables]_vars

\* a step of a POST that delivers again the message stored before the run began
Redelivers(i) ==
    /\ PostActs(i)
    /\ calls[i].payload.kind = "message"
    /\ calls[i].payload.id = SeedMessage(1).providerMessageId
    /\ findByProviderMessageId(calls[i].payload.id) # 0

\* C16 (as claimed): processing an inbound message whose providerMessageId is on a
\* message already creates no conversation, no message and no event, and changes
\* no conversation's status, assignment, lastMessageAt or firstResponseAt.
C16_DuplicateNoOp ==
    [][\A i \in CallIds : Redelivers(i) =>
          /\ conversations' = conversations
          /\ events' = events
          /\ messages' = messages]_vars

\* a step in which the insert of POST i's message runs into the unique provider id
HitsDuplicate(i) ==
    /\ PostActs(i)
    /\ calls[i].pc = "msg_insert"
    /\ findByProviderMessageId(calls[i].payload.id) # 0

\* C17 (as claimed): a uniqueness violation on providerMessageId counts as the
\* message being processed: the processing does not end there, the entries that
\* follow it in the payload are taken up next.
C17_DuplicateIsSuccess ==
    [][\A i \in CallIds :
          (HitsDuplicate(i) /\ calls[i].payload.next # <<>>)
              => /\ calls'[i].op = "post"
                 /\ calls'[i].payload = calls[i].payload.next[1]]_vars

\* C18 (as claimed): a message whose status is FAILED keeps it; no worker attempt
\* and no provider callback moves it to SENT, DELIVERED or READ.
C18_FailedAbsorbing ==
    [][\A m \in MsgIds :
          (m <= Len(messages) /\ messages[m].status = "FAILED")
              => messages'[m].status = "FAILED"]_vars

\* the events of conversation c that record an assignment change
AssignmentEvents(c) ==
    SelectSeq(events[c], LAMBDA e : e.eventType \in {"ACCEPTED", "RELEASED", "REOPENED", "COMPLETED"})

LastAcceptedBy(c, a) ==
    /\ AssignmentEvents(c) # <<>>
    /\ AssignmentEvents(c)[Len(AssignmentEvents(c))].eventType = "ACCEPTED"
    /\ AssignmentEvents(c)[Len(AssignmentEvents(c))].actorId = a

\* C19 (as claimed): in every state, a conversation is ASSIGNED to agent a exactly
\* if its latest assignment event is ACCEPTED by a: the update and the event of
\* accept are persisted both or neither.
C19_AcceptAtomic ==
    \A c \in 1..Len(conversations) : \A a \in Agents :
        (conversations[c].status = "ASSIGNED" /\ conversations[c].assignedAgentId = a)
            <=> LastAcceptedBy(c, a)

\* a step in which accept call i asks for the lock
Asks(i) ==
    /\ calls[i].op = "accept" /\ calls[i].pc = "acquire"
    /\ calls'[i] # calls[i]

\* C20: the lock of accept never wedges a conversation: a lock that is held is
\* free again in the end, also when its holder stopped before its finally block;
\* an accept that asks for a free lock gets it, and with the lock on a PENDING
\* conversation it goes on to assign the conversation to its caller.
C20_LockNeverWedges ==
    /\ \A c \in ConvIds : (lock[c] # Null) ~> (lock[c] = Null)
    /\ [][\A i \in CallIds : (Asks(i) /\ lock[calls[i].conv] = Null)
            => (calls'[i].pc = "read" /\ lock'[calls[i].conv] = calls[i].agent)]_vars
    /\ [][\A i \in CallIds :
            (calls[i].op = "accept" /\ calls[i].pc = "read" /\ calls'[i] # calls[i]
                /\ calls'[i].op = "accept" /\ conversations[calls[i].conv].status = "PENDING")
            => calls'[i].pc = "update"]_vars
    /\ [][\A i \in CallIds :
            (calls[i].op = "accept" /\ calls[i].pc = "update" /\ calls'[i].pc = "event")
            => conversations'[calls[i].conv] =
                  AssignedRow(conversations[calls[i].conv], calls[i].agent)]_vars

\* an accept stopped while it held the lock, the ttl elapsed, and the accept of
\* another agent holds the lock on the conversation, which is still PENDING
C20_Witness ==
    /\ conversations[1].status = "PENDING"
    /\ \E r \in returned : r.op = "accept" /\ r.result = "crashed" /\ r.agent # lock[1]
    /\ \E i \in CallIds :
          calls[i].op = "accept" /\ calls[i].pc = "read" /\ lock[1] = calls[i].agent

\* C21 (as claimed): the stored lastMessageAt of a conversation never decreases,
\* whatever the interleaving of the requests that write it.
C21_LastMessageAtMonotone ==
    [][\A c \in 1..Len(conversations) :
          conversations'[c].lastMessageAt >= conversations[c].lastMessageAt]_vars

\* C22 (as claimed): once firstResponseAt of a conversation is set, its value
\* never changes again.
C22_FirstResponseAtWriteOnce ==
    [][\A c \in 1..Len(conversations) :
          conversations[c].firstResponseAt # NoTime
              => conversations'[c].firstResponseAt = conversations[c].firstResponseAt]_vars

\* a step in which POST i, a status callback for the provider id of a stored
\* message, ends
StatusAnswered(i) ==
    /\ PostAnswered(i)
    /\ calls[i].payload.kind = "status"
    /\ calls[i].payload.next = <<>>
    /\ findByProviderMessageId(calls[i].payload.id) # 0

\* C23 (as claimed): a status callback whose id is the providerMessageId of a
\* message sets that message's status to the status it carries and, for
\* delivered, read and failed, appends the one event of that status to the
\* message's conversation: the callback ends with the step that does the last of
\* these writes.
C23_StatusByProviderId ==
    [][\A i \in CallIds : StatusAnswered(i) =>
          LET m == findByProviderMessageId(calls[i].payload.id)
              to == StatusTo(calls[i].payload.status)
          IN  IF StatusEvent(to) = Null
              THEN messages' = [messages EXCEPT ![m].status = to]
              ELSE /\ calls[i].msg = m
                   /\ events' = EventsCreate(events, messages[m].conversationId,
                                             StatusEvent(to), NoAgent, m)]_vars


\* C24 (as claimed): accept is broadcast: an accept that returned successfully
\* has emitted conversation:assigned and conversation:updated to the room
\* org:{organizationId} of its conversation, and conversation:assigned is emitted
\* for no accept that failed.
C24_AcceptBroadcast ==
    /\ \A r \in returned :
          (r.op = "accept" /\ r.result = "ok") =>
              /\ Emission(OrgRoom(conversations[r.conv].organizationId),
                          "conversation:assigned", r.conv, r.agent, 0, Null) \in Emitted
              /\ \E e \in Emitted :
                    /\ e.to = OrgRoom(conversations[r.conv].organizationId)
                    /\ e.event = "conversation:updated"
                    /\ e.data.conversationId = r.conv
    /\ \A e \in Emitted :
          e.event = "conversation:assigned" =>
              \E r \in returned :
                  /\ r.op = "accept" /\ r.result = "ok"
                  /\ r.conv = e.data.conversationId /\ r.agent = e.data.userId


\* a step in which handleDisconnect call i is over
DisconnectOver(i) ==
    /\ calls[i].op = "releaseByAgent"
    /\ calls'[i].op = "idle"

\* C25 (as claimed): disconnect compensation is best-effort: when the disconnect
\* handler is over, the session blob of the user is gone and OFFLINE was
\* broadcast to the organization room of the socket, also when releaseByAgent
\* failed, and no error of releaseByAgent leaves the handler.
C25_DisconnectBestEffort ==
    [][\A i \in CallIds : DisconnectOver(i) =>
          /\ calls[i].agent \notin sessions'
          /\ Emission(OrgRoom(Handshakes[calls[i].socket].organizationId),
                      "agent:status_changed", 0, calls[i].agent, 0, "OFFLINE") \in Emitted'
          /\ Response(calls[i], "Error") \notin returned']_vars


\* a step in which the processing of an inbound message by call i appends REOPENED
AppendsReopened(i) ==
    /\ calls[i].op = "post" /\ calls[i].pc = "reopen_event"
    /\ events'[calls[i].conv] = Append(events[calls[i].conv], NewEvent("REOPENED", NoAgent, 0))

\* C26 (as claimed): audit order on reopen: when the processing of one inbound
\* message appends REOPENED to a conversation, the MESSAGE_RECEIVED event of
\* that message is not yet in the trail of the conversation: REOPENED precedes it.
C26_ReopenedBeforeReceived ==
    [][\A i \in CallIds : AppendsReopened(i) =>
          \A n \in 1..Len(events[calls[i].conv]) :
              ~ /\ events[calls[i].conv][n].eventType = "MESSAGE_RECEIVED"
                /\ events[calls[i].conv][n].messageId = calls[i].msg]_vars


\* the secrets a signature is checked against
Secrets == {"s0", "s1"}

\* C27 (as claimed): the signature function, applied to the raw body and the
\* signature header of any request and to any secret, returns true exactly when
\* the signature is "sha256=" followed by the hex HMAC-SHA256 of the body under
\* the secret, and false, without raising an error, for every other signature.
C27_SignatureFunction ==
    \A i \in CallIds : \A secret \in Secrets :
        calls[i].op = "post" =>
            validateWhatsAppSignature(rawBody(calls[i].payload), calls[i].sig, secret)
              = IF calls[i].sig = [prefix |-> "sha256=",
                                   hash |-> Hmac(secret, rawBody(calls[i].payload))]
                THEN "true"
                ELSE "false"


\* C28 (as claimed): contact upsert: there is one row per (organizationId,
\* providerId), no upsert moves lastSeenAt back, and an upsert writes displayName
\* only where the stored displayName is null: a displayName that is not null
\* is never overwritten.
C28_ContactUpsert ==
    [][/\ \A k, l \in 1..Len(contacts') :
             (/\ contacts'[k].organizationId = contacts'[l].organizationId
              /\ contacts'[k].providerId = contacts'[l].providerId) => k = l
       /\ \A k \in 1..Len(contacts) :
             /\ contacts'[k].lastSeenAt >= contacts[k].lastSeenAt
             /\ contacts[k].displayName # Null
                    => contacts'[k].displayName = contacts[k].displayName]_vars


\* no row of channels has the phone number id
Unmatched(pn) == \A ch \in ChannelIds : Channels[ch].phoneNumberId # pn

\* a step of POST i on a payload entry whose phone number id matches no channel
DropsEntry(i) ==
    /\ calls[i].op = "post" /\ calls[i].pc # "gate"
    /\ Unmatched(calls[i].payload.phone_number_id)
    /\ calls'[i] # calls[i]

\* C29: an entry of an event-delivery payload whose phone number id matches no
\* channel is dropped: the step that deals with it writes no table and no queue,
\* and the request goes on to the next entry of the payload or, when there is
\* none, is answered 200.
C29_UnmatchedDropped ==
    [][\A i \in CallIds : DropsEntry(i) =>
          /\ tables' = tables
          /\ queues' = queues
          /\ IF calls[i].payload.next = <<>>
             THEN Response(calls[i], "200") \in returned' /\ calls'[i] = IdleCall
             ELSE calls'[i].payload = calls[i].payload.next[1] /\ returned' = returned]_vars

\* a request whose last entry was for an unknown phone number id was answered
\* 200, and no message of that entry is stored
C29_Witness ==
    \E r \in returned :
        /\ r.op = "post" /\ r.result = "200"
        /\ r.id = UnmatchedEntry.id /\ r.msg = 0
        /\ findByProviderMessageId(UnmatchedEntry.id) = 0


\* conversation c exists and belongs to the organization of socket k
SameOrganization(k, c) ==
    /\ c \in 1..Len(conversations)
    /\ conversations[c].organizationId = Handshakes[k].organizationId

\* C30: conversation rooms are authorized: a socket becomes a member of room
\* conv:{id} only in a step at which conversation id exists and belongs to the
\* organization of the socket, and a join:conversation for a missing conversation
\* or one of another organization emits error to the client and leaves the
\* membership of every room as it was.
C30_RoomAuthorization ==
    [][/\ \A k \in SocketIds : \A c \in ConvIds :
             (ConvRoom(c) \in rooms'[k] /\ ConvRoom(c) \notin rooms[k]) => SameOrganization(k, c)
       /\ \A i \in CallIds :
             (/\ calls[i].op = "join"
              /\ calls'[i] # calls[i]
              /\ ~SameOrganization(calls[i].socket, calls[i].conv))
                => /\ rooms' = rooms
                   /\ emitted' = Append(emitted, Emission(Client(calls[i].socket), "error", 0,
                                                          NoAgent, 0, "Conversation not found"))]_vars

\* the socket of organization o1 is in the room of conversation 1, and the socket
\* of organization o2, which asked for the same room, got the error and is not
C30_Witness ==
    /\ ConvRoom(1) \in rooms["sk1"]
    /\ ConvRoom(1) \notin rooms["sk3"]
    /\ \E r \in returned : r.op = "join" /\ r.agent = "a3" /\ r.conv = 1 /\ r.result = "error"
    /\ Emission(Client("sk3"), "error", 0, NoAgent, 0, "Conversation not found") \in Emitted


\* the handshake of socket k lacks the userId or the organizationId
LacksAuth(k) == Handshakes[k].userId = Null \/ Handshakes[k].organizationId = Null

\* C31: an unauthenticated connect is rejected: a socket whose handshake lacks
\* userId or organizationId is in no room and no request runs on its behalf; the
\* step that handles its connection emits error to it and nothing else, creates
\* no session blob and writes no table, and the step that handles its disconnect
\* changes nothing but the record that it was handled.
C31_UnauthenticatedRejected ==
    /\ [](\A k \in SocketIds : LacksAuth(k) =>
             /\ rooms[k] = {}
             /\ \A i \in CallIds : calls[i].socket # k)
    /\ [][\A k \in SocketIds : LacksAuth(k) =>
             /\ (\E r \in returned' \ returned : r.socket = k /\ r.op = "connect")
                   => /\ emitted' = Append(emitted, Emission(Client(k), "error", 0, NoAgent, 0,
                                                             "Authentication required"))
                      /\ returned' = returned \cup {Rejected(k)}
                      /\ UNCHANGED <<tables, lock, queues, sessions, rooms, calls>>
             /\ (\E r \in returned' \ returned : r.socket = k /\ r.op = "releaseByAgent")
                   => UNCHANGED <<tables, lock, queues, sessions, rooms, emitted, calls>>]_vars

\* both sockets without full handshake were rejected and have disconnected, and
\* agent a1, whose userId one of them carried, still holds conversation 1
C31_Witness ==
    /\ {Rejected("sk5"), Ignored("sk5"), Rejected("sk6")} \subseteq returned
    /\ conversations[1].status = "ASSIGNED" /\ conversations[1].assignedAgentId = "a1"
    /\ "a1" \in sessions
    /\ rooms["sk5"] = {} /\ rooms["sk6"] = {}


\* socket k, with a full handshake, is connected before and after the step
StaysConnected(k) ==
    /\ Handshakes[k].userId # Null /\ Handshakes[k].organizationId # Null
    /\ Client(k) \in rooms[k]
    /\ Client(k) \in rooms'[k]

\* C39 (as claimed): multi-socket agents: in a step across which a socket of an
\* agent stays connected, the session blob of the agent is not removed, and the
\* disconnect handler of another socket of that agent takes none of the agent's
\* ASSIGNED conversations away.
C39_MultiSocket ==
    [][\A k \in SocketIds : StaysConnected(k) =>
          /\ Handshakes[k].userId \in sessions => Handshakes[k].userId \in sessions'
          /\ \A i \in CallIds :
                (calls[i].op = "releaseByAgent" /\ calls[i].agent = Handshakes[k].userId
                   /\ calls'[i] # calls[i])
                    => conversations' = conversations]_vars


\* the status changes the state machine allows, with the operations that make them
LegalTransitions ==
    {<<"PENDING", "ASSIGNED", "accept">>,
     <<"ASSIGNED", "PENDING", "release">>,
     <<"ASSIGNED", "PENDING", "releaseByAgent">>,
     <<"ASSIGNED", "COMPLETED", "complete">>,
     <<"COMPLETED", "PENDING", "reopen">>,
     <<"COMPLETED", "PENDING", "post">>}

\* C32 (as claimed): only legal transitions: in every step, a conversation whose
\* status changes goes from PENDING to ASSIGNED in an accept, from ASSIGNED to
\* PENDING in a release or releaseByAgent, from ASSIGNED to COMPLETED in a
\* complete, or from COMPLETED to PENDING in a reopen (on its own or inside
\* inbound processing); no step takes a conversation from PENDING to COMPLETED.
C32_LegalTransitions ==
    [][\A c \in 1..Len(conversations) :
          conversations'[c].status # conversations[c].status =>
              \E i \in CallIds :
                  /\ calls'[i] # calls[i]
                  /\ <<conversations[c].status, conversations'[c].status, calls[i].op>>
                        \in LegalTransitions]_vars


\* C33: a failed accept cleans up: when the re-read of accept finds a status
\* other than PENDING, the call goes to its finally block with Conflict and
\* writes nothing; the step of the finally block writes no table, leaves the
\* lock key absent and returns Conflict.
C33_FailedAcceptCleansUp ==
    [][\A i \in CallIds : (calls[i].op = "accept" /\ calls'[i] # calls[i]) =>
          /\ (/\ calls[i].pc = "read"
              /\ calls[i].conv \in 1..Len(conversations)
              /\ conversations[calls[i].conv].status # "PENDING")
                => /\ calls'[i] = [calls[i] EXCEPT !.pc = "unlock", !.result = "Conflict"]
                   /\ tables' = tables
                   /\ lock' = lock
          /\ (calls[i].pc = "unlock" /\ calls[i].result = "Conflict")
                => /\ tables' = tables
                   /\ lock'[calls[i].conv] = Null
                   /\ calls'[i] = IdleCall
                   /\ returned' = returned \cup {Response(calls[i], "Conflict")}]_vars

\* the only request of the run, an accept by a2 of the conversation a1 holds,
\* returned Conflict: a1 holds it as before and the lock key is absent
C33_Witness ==
    /\ started = 1
    /\ \E r \in returned : r.op = "accept" /\ r.agent = "a2" /\ r.result = "Conflict"
    /\ conversations[1].status = "ASSIGNED" /\ conversations[1].assignedAgentId = "a1"
    /\ events[1] = TrailOf(1, "ASSIGNED", "a1")
    /\ lock[1] = Null


\* C34: release and complete on a conversation that is not assigned: when the
\* read of release or complete finds the status PENDING or COMPLETED, the call
\* returns Conflict at that step, and conversations and event trails are as
\* they were.
C34_NotAssignedConflict ==
    [][\A i \in CallIds :
         (/\ calls[i].op \in {"release", "complete"}
          /\ calls[i].pc = "read"
          /\ calls'[i] # calls[i]
          /\ calls[i].conv \in 1..Len(conversations)
          /\ conversations[calls[i].conv].status \in {"PENDING", "COMPLETED"})
            => /\ returned' = returned \cup {Response(calls[i], "Conflict")}
               /\ calls'[i] = IdleCall
               /\ tables' = tables]_vars

\* a release of the COMPLETED conversation by the agent who completed it was
\* refused with Conflict, and the conversation is as the complete left it
C34_Witness ==
    /\ \E r \in returned : r.op = "complete" /\ r.result = "ok"
    /\ \E r \in returned :
          /\ r.op = "release" /\ r.result = "Conflict"
          /\ r.agent = conversations[1].assignedAgentId
    /\ conversations[1].status = "COMPLETED"
    /\ events[1][Len(events[1])].eventType = "COMPLETED"


\* a step in which markDelivered / markRead of POST i finds no message with the
\* provider id of the callback
MarksUnknown(i) ==
    /\ calls[i].op = "post" /\ calls[i].pc = "mark_find"
    /\ \A m \in 1..Len(messages) : messages[m].providerMessageId # calls[i].id
    /\ calls'[i] # calls[i]

\* C35: an unknown provider id is a no-op: a delivered or read callback whose id
\* is the providerMessageId of no message changes no table, and it does not
\* fail: the request goes on with the next callback of its payload or, when
\* there is none, is answered 200.
C35_UnknownIdNoOp ==
    [][\A i \in CallIds : MarksUnknown(i) =>
          /\ tables' = tables
          /\ queues' = queues
          /\ IF calls[i].payload.next = <<>>
             THEN calls'[i] = IdleCall /\ returned' = returned \cup {Response(calls[i], "200")}
             ELSE calls'[i].payload = calls[i].payload.next[1] /\ returned' = returned]_vars

\* the only request of the run, a delivered callback for an id no message has,
\* was answered 200 and the outbound message and the trail are as they were
C35_Witness ==
    /\ started = 1
    /\ \E r \in returned :
          /\ r.op = "post" /\ r.result = "200" /\ r.to = "DELIVERED"
          /\ r.id = <<"wamid", 2>>
    /\ \A m \in 1..Len(messages) : messages[m].providerMessageId # <<"wamid", 2>>
    /\ messages[2].status \in {"PENDING", "SENT"}
    /\ Len(events[1]) = Len(TrailOf(1, "ASSIGNED", "a1")) + 1


\* the conversation that the UPDATE of release, complete or releaseByAgent of
\* call i is about to write, 0 when the call is at no such UPDATE
WrittenBy(i) ==
    IF calls[i].pc # "update" THEN 0
    ELSE IF calls[i].op \in {"release", "complete"} THEN calls[i].conv
    ELSE IF calls[i].op = "releaseByAgent" THEN Head(calls[i].todo)
    ELSE 0

\* C36: no cross-agent interference: the write of a release, complete or
\* releaseByAgent made on behalf of agent A never changes the status or the
\* assignedAgentId of a conversation that is assigned to another agent B when
\* the write runs.
C36_NoCrossAgentInterference ==
    [][\A i \in CallIds :
          (/\ WrittenBy(i) # 0
           /\ calls'[i] # calls[i]
           /\ conversations[WrittenBy(i)].status = "ASSIGNED"
           /\ conversations[WrittenBy(i)].assignedAgentId # calls[i].agent)
          => /\ conversations'[WrittenBy(i)].status = conversations[WrittenBy(i)].status
             /\ conversations'[WrittenBy(i)].assignedAgentId
                   = conversations[WrittenBy(i)].assignedAgentId]_vars


\* C37: outbound only while assigned: the send endpoint inserts an OUTBOUND
\* message only into a conversation whose status is ASSIGNED when the row is
\* inserted; none is added to a COMPLETED or PENDING conversation.
C37_OutboundOnlyAssigned ==
    [][\A i \in CallIds :
          (/\ calls[i].op = "send" /\ calls[i].pc = "insert"
           /\ Len(messages') = Len(messages) + 1)
          => conversations[calls[i].conv].status = "ASSIGNED"]_vars

\* C37, for requests that do not overlap: a send request that starts after the
\* conversation was completed or released inserts no message.
C37_Sequential ==
    [][\A i \in CallIds :
          (/\ calls[i].op = "send" /\ calls[i].pc = "read"
           /\ Exists(calls[i].conv)
           /\ conversations[calls[i].conv].status # "ASSIGNED")
          => calls'[i].pc # "insert"]_vars


\* the rows a step appends to a table
Appended(old, new) == {new[k] : k \in (Len(old) + 1)..Len(new)}

\* C38: webhook channel binding: the contacts, conversations and messages that
\* the handling of POST /webhooks/whatsapp/{channelId} creates belong to the
\* channel named in the URL and to its organization, never to a channel or an
\* organization picked by the phone_number_id of the payload.
C38_ChannelBinding ==
    [][\A i \in CallIds :
          (calls[i].op = "post" /\ calls'[i] # calls[i]) =>
             /\ \A row \in Appended(contacts, contacts') :
                   row.organizationId = Channels[calls[i].url].organizationId
             /\ \A row \in Appended(conversations, conversations') :
                   /\ row.channelId = calls[i].url
                   /\ row.organizationId = Channels[calls[i].url].organizationId
             /\ \A row \in Appended(messages, messages') :
                   conversations'[row.conversationId].channelId = calls[i].url]_vars


\* C40: a losing accept leaves the lock alone: an accept that finds
\* lock:conversation:{id} held returns Conflict at that step; the key keeps the
\* value of its holder, and no table and no queue is written.
C40_LosingAcceptLeavesLock ==
    [][\A i \in CallIds :
          (/\ calls[i].op = "accept" /\ calls[i].pc = "acquire"
           /\ lock[calls[i].conv] # Null
           /\ calls'[i] # calls[i])
          => /\ lock' = lock
             /\ tables' = tables
             /\ queues' = queues
             /\ calls'[i] = IdleCall
             /\ returned' = returned \cup {Response(calls[i], "Conflict")}]_vars

\* an accept returned Conflict while the accept of another agent, which holds
\* the lock, has not written yet: the key is that agent's and the conversation
\* is PENDING
C40_Witness ==
    \E r \in returned, j \in CallIds :
        /\ r.op = "accept" /\ r.result = "Conflict"
        /\ calls[j].op = "accept" /\ calls[j].pc = "read"
        /\ calls[j].agent # r.agent /\ calls[j].conv = r.conv
        /\ lock[r.conv] = calls[j].agent
        /\ conversations[r.conv].status = "PENDING"
        /\ events[r.conv] = TrailOf(r.conv, "PENDING", NoAgent)

====
